---- MODULE Spec2Model ----
(***************************************************************************)
(* Model of the 5dcserver connection state machine and match registries   *)
(* (src/5dcserver/src/server.rs, src/5dcserver/src/datatype.rs).          *)
(*                                                                         *)
(* Every connection task is a process with a program counter pc[c].       *)
(* Tasks run in parallel on a multi-threaded runtime, so a handler is cut *)
(* into one step per access to shared state (a registry lock, a           *)
(* rendezvous channel); task-local assignments are folded into the shared *)
(* access they follow.  The guard `match_list` that Create keeps on        *)
(* public_matches across its accesses to the other registry is the only   *)
(* lock held across steps; every other guard is a temporary.              *)
(***************************************************************************)
EXTENDS Integers, Sequences, FiniteSets, TLC

(* ---- bounds of the model ---- *)
NConn == 3
PasscodeMax == 1
MaxMatch == 2
LimitConcurrentMatch == 1
LimitPublicWaiting == 1

(* ---- program constants ---- *)
HistoryCap == 13
FirstMatchId == 1
ChannelCap == 16
ActionTypeMove == 1
ActionTypeResetPuzzle == 4

Conns == 1..NConn
Passcodes == 0..PasscodeMax
Chans == 1..MaxMatch

(* config.variants and config.variants_without_random *)
ConfigVariants == {"Standard", "Random"}
VariantsWithoutRandom == ConfigVariants \ {"Random"}

VARIABLES
    match_id,        \* ServerState.match_id
    matches,         \* ServerState.matches: passcode -> channel whose rx_peer is parked
    public_matches,  \* ServerState.public_matches: passcode -> settings
    history,         \* ServerState.server_history_matches, in insertion order
    chan,            \* the rendezvous channels, by allocation number
    nchan,           \* number of channel pairs allocated so far
    state,           \* cs.state
    m,               \* cs.m, <<>> for None
    tx,              \* cs.tx, <<>> for None
    rx,              \* cs.rx, <<>> for None
    pc,              \* position of the connection task
    loc,             \* the locals of the running handler
    sent,            \* what the handler that ran last put on the client socket
    assigned,        \* the match ids handed out, in the order of fetch_add
    config,          \* the policy keys of the configuration
    c2s,             \* the action frames each client wrote, in order
    s2c,             \* the action frames put on each client socket, in order
    running,         \* the value of the watch channel `running`
    timeout          \* cs.timeout: TRUE once the sleep of the connection is over

srvvars == <<match_id, matches, public_matches, history, chan, nchan,
             state, m, tx, rx, pc, loc, sent, assigned>>
iovars == <<config, c2s, s2c, running, timeout>>
vars == <<srvvars, iovars>>

(* ------------------------------------------------------------------ *)
(* Data types                                                         *)
(* ------------------------------------------------------------------ *)

(* mutant: reversed() that returns the colour it was given *)
reversedSame(color) == color

(* OptionalColorWithRandom::reversed *)
reversed(color) ==
    CASE color = "White" -> "Black"
      [] color = "Black" -> "White"
      [] OTHER -> color

(* OptionalColorWithRandom::determined: the outcomes of the random draw *)
determined(color) ==
    IF color = "Random" THEN {"White", "Black"} ELSE {color}

(* Variant::determined: a draw from config.variants without Random *)
determinedVariant(variant) ==
    IF variant = "Random" THEN VariantsWithoutRandom ELSE {variant}

(* MatchSettings as Message::unpack builds it for a Create *)
UnpackCreate(mi) ==
    [color |-> mi.color, clock |-> mi.clock, variant |-> mi.variant,
     visibility |-> mi.visibility, passcode |-> -1, match_id |-> -1]

(* MatchSettingsWithoutVisibility::new *)
WithoutVisibility(s) ==
    [color |-> s.color, clock |-> s.clock, variant |-> s.variant,
     passcode |-> s.passcode, match_id |-> s.match_id]

(* MatchSettings::new *)
MatchSettingsNew(w, visibility) ==
    [color |-> w.color, clock |-> w.clock, variant |-> w.variant,
     visibility |-> visibility, passcode |-> w.passcode, match_id |-> w.match_id]

(* mutant: a history entry that starts out Completed *)
ServerHistoryMatchNewCompleted(id, s) ==
    [match_id |-> id, status |-> "Completed", clock |-> s.clock,
     variant |-> s.variant, visibility |-> s.visibility]

(* ServerHistoryMatch::new, keyed by the match id it is inserted under *)
ServerHistoryMatchNew(id, s) ==
    [match_id |-> id, status |-> "InProgress", clock |-> s.clock,
     variant |-> s.variant, visibility |-> s.visibility]

(* Message::unpack of a C2SOrS2CAction: the 13 body words in wire order *)
UnpackAction(w) ==
    [action_type |-> w[1], color |-> w[2], message_id |-> w[3],
     src_l |-> w[4], src_t |-> w[5], src_board_color |-> w[6],
     src_x |-> w[7], src_y |-> w[8],
     dst_l |-> w[9], dst_t |-> w[10], dst_board_color |-> w[11],
     dst_x |-> w[12], dst_y |-> w[13]]

(* Message::pack of a C2SOrS2CAction *)
PackAction(b) ==
    <<b.action_type, b.color, b.message_id,
      b.src_l, b.src_t, b.src_board_color, b.src_y, b.src_x,
      b.dst_l, b.dst_t, b.dst_board_color, b.dst_y, b.dst_x>>

(* HashMap::insert and HashMap::remove *)
EmptyMap == [q \in {} |-> 0]
MapInsert(f, k, v) == [q \in (DOMAIN f) \cup {k} |-> IF q = k THEN v ELSE f[q]]
MapRemove(f, k) == [q \in (DOMAIN f) \ {k} |-> f[q]]

(* mutant: over the cap, the newest entry is removed instead of the oldest *)
HistoryInsertDropNewest(h, id, entry) ==
    LET idx == {i \in 1..Len(h) : h[i].match_id = id}
        h1 == IF idx # {}
              THEN [i \in 1..Len(h) |-> IF i \in idx THEN entry ELSE h[i]]
              ELSE Append(h, entry)
    IN  IF Len(h1) > HistoryCap THEN SubSeq(h1, 1, HistoryCap) ELSE h1

(* IndexMap::insert followed by the cap: shift_remove_index(0) when over 13 *)
HistoryInsert(h, id, entry) ==
    LET idx == {i \in 1..Len(h) : h[i].match_id = id}
        h1 == IF idx # {}
              THEN [i \in 1..Len(h) |-> IF i \in idx THEN entry ELSE h[i]]
              ELSE Append(h, entry)
    IN  IF Len(h1) > HistoryCap THEN Tail(h1) ELSE h1

(* get_mut(&match_id) and v.state = Completed, when the entry is present *)
HistoryComplete(h, id) ==
    [i \in 1..Len(h) |->
        IF h[i].match_id = id THEN [h[i] EXCEPT !.status = "Completed"] ELSE h[i]]

HistoryIds(h) == {h[i].match_id : i \in 1..Len(h)}

(* ------------------------------------------------------------------ *)
(* Rendezvous channels (tokio broadcast, one sender and one receiver)  *)
(* ------------------------------------------------------------------ *)

Msg(type) == [type |-> type, body |-> <<>>]
(* mutant: the host answers the join with a second InternalJoin *)
MsgStartAsJoin(body) == [type |-> "InternalJoin", body |-> <<body>>]
MsgStart(body) == [type |-> "InternalMatchStart", body |-> <<body>>]
MsgAction(body) == [type |-> "InternalAction", body |-> <<body>>]

Half(q, alive) == [q |-> q, tx |-> alive, rx |-> alive, lagged |-> FALSE]
DeadChan == [h2j |-> Half(<<>>, FALSE), j2h |-> Half(<<>>, FALSE)]

(* the two broadcast::channel(16) of a Create, InternalInitialize(tx_peer) sent *)
NewChan == [h2j |-> Half(<<Msg("InternalInitialize")>>, TRUE), j2h |-> Half(<<>>, TRUE)]

End(k, dir) == [ch |-> k, dir |-> dir]
HostTx(k) == End(k, "h2j")
HostRx(k) == End(k, "j2h")
PeerTx(k) == End(k, "j2h")
PeerRx(k) == End(k, "h2j")

Queue(ch, e) == ch[e.ch][e.dir].q
(* recv() returns RecvError::Lagged / has a message / returns Closed *)
RecvLagged(ch, e) == ch[e.ch][e.dir].lagged
CanRecv(ch, e) == Len(Queue(ch, e)) > 0 /\ ~RecvLagged(ch, e)
RecvClosed(ch, e) ==
    Len(Queue(ch, e)) = 0 /\ ~ch[e.ch][e.dir].tx /\ ~RecvLagged(ch, e)
Pop(ch, e) == [ch EXCEPT ![e.ch][e.dir].q = Tail(@)]
(* send() fails when no receiver is left *)
CanSend(ch, e) == ch[e.ch][e.dir].rx
(* send(): a channel that holds ChannelCap messages gives up the oldest, *)
(* and the receiver has lagged                                           *)
Push(ch, e, msg) ==
    IF Len(Queue(ch, e)) >= ChannelCap
    THEN [ch EXCEPT ![e.ch][e.dir].q = Append(Tail(@), msg),
                    ![e.ch][e.dir].lagged = TRUE]
    ELSE [ch EXCEPT ![e.ch][e.dir].q = Append(@, msg)]

(* Dropping a receiver drops what is still queued for it; a queued         *)
(* InternalInitialize holds tx_peer, the only sender of the other channel. *)
DropRx(ch, e) ==
    LET parked == \E i \in 1..Len(Queue(ch, e)) :
                      Queue(ch, e)[i].type = "InternalInitialize"
        c1 == [ch EXCEPT ![e.ch][e.dir].rx = FALSE, ![e.ch][e.dir].q = <<>>]
    IN  IF parked THEN [c1 EXCEPT ![e.ch].j2h.tx = FALSE] ELSE c1

DropTx(ch, e) == [ch EXCEPT ![e.ch][e.dir].tx = FALSE]

(* drop of Option<Sender> / Option<Receiver> values *)
DropTxOpt(ch, o) == IF o = <<>> THEN ch ELSE DropTx(ch, o[1])
DropRxOpt(ch, o) == IF o = <<>> THEN ch ELSE DropRx(ch, o[1])

(* removing a registry entry drops the rx_peer it held, if there was one *)
DropEntry(ch, f, p) == IF p \in DOMAIN f THEN DropRx(ch, PeerRx(f[p])) ELSE ch

(* ------------------------------------------------------------------ *)
(* Connections                                                        *)
(* ------------------------------------------------------------------ *)

NoLoc == [m |-> <<>>, rx |-> <<>>, passcode |-> -1, visibility |-> "None",
          end |-> "done", count |-> 0, list |-> <<>>]

(* how handle_connection_main_loop returned: Ok(()) or the error it passed  *)
(* on with `?`; a SendError holds the message that was not sent             *)
ErrInvalidData == "InvalidData"
ErrLimit == "AlreadyExists"
ErrClosed == "RecvError::Closed"
ErrLagged == "RecvError::Lagged"
ErrSend(type) == "SendError(" \o type \o ")"
EndPcs == {"done", "panicked", ErrInvalidData, ErrLimit, ErrClosed, ErrLagged,
           ErrSend("InternalJoin"), ErrSend("InternalMatchStart"),
           ErrSend("InternalForfeit"), ErrSend("InternalAction")}

(* replies put on the client socket *)
Reply(type, ok, body) == [type |-> type, ok |-> ok, body |-> body]
S2CCreateOrJoinSuccess(s) == Reply("S2CMatchCreateOrJoinResult", TRUE, <<s>>)
(* mutant: the Failed reply that carries the success flag *)
S2CCreateOrJoinFailedAsSuccess == Reply("S2CMatchCreateOrJoinResult", TRUE, <<>>)
S2CCreateOrJoinFailed == Reply("S2CMatchCreateOrJoinResult", FALSE, <<>>)
S2CCancelSuccess == Reply("S2CMatchCancelResult", TRUE, <<>>)
S2CMatchStart(body) == Reply("S2CMatchStart", TRUE, <<body>>)
S2COpponentLeft == Reply("S2COpponentLeft", TRUE, <<>>)
S2CAction(body) == Reply("C2SOrS2CAction", TRUE, <<body>>)
S2CMatchList(body) == Reply("S2CMatchList", TRUE, <<body>>)
S2CCancelFailed == Reply("S2CMatchCancelResult", FALSE, <<>>)

(* mutant: Join binds its matches guard to a variable and keeps it while  *)
(* it removes the entry from public_matches                               *)
HeldThroughJoin(c) ==
    CASE pc[c] = "create_insert" -> <<"public_matches">>
      [] pc[c] = "create_spin" -> <<"public_matches", "matches">>
      [] pc[c] = "join_public" -> <<"matches">>
      [] OTHER -> <<>>

(* the registry guards a handler holds between two steps, in the order it  *)
(* acquired them: `match_list` from public_matches.write() to the end of   *)
(* the Create handler, `exceptions` inside the passcode loop; every other  *)
(* guard is a temporary released within the statement that takes it        *)
Held(c) ==
    CASE pc[c] = "create_insert" -> <<"public_matches">>
      [] pc[c] = "create_spin" -> <<"public_matches", "matches">>
      [] OTHER -> <<>>

HoldsLock(c, lock) == \E i \in DOMAIN Held(c) : Held(c)[i] = lock

(* the guard `match_list` on public_matches, held by a Create from its     *)
(* acquisition to the end of the handler                                   *)
PublicLocked == \E c \in Conns : HoldsLock(c, "public_matches")
(* the guard on matches held by the passcode loop while every passcode is  *)
(* taken                                                                   *)
MatchesLocked == \E c \in Conns : HoldsLock(c, "matches")

(* Creates that have passed the checks and not yet allocated their channels *)
CreatesPending == Cardinality({c \in Conns : pc[c] = "create_lock"})

(* the policy keys of the configuration file: the ban_ keys as the default *)
(* file is written, allow_reset_puzzle as main reads it                     *)
DefaultConfig ==
    [ban_public_match |-> FALSE, ban_private_match |-> FALSE,
     ban_reset_puzzle |-> TRUE, allow_reset_puzzle |-> FALSE]
(* the configurations that differ in the keys about ResetPuzzle *)
Configs ==
    [ban_public_match : {FALSE}, ban_private_match : {FALSE},
     ban_reset_puzzle : BOOLEAN, allow_reset_puzzle : BOOLEAN]
(* the configurations that differ in the keys about visibility *)
BanConfigs ==
    [ban_public_match : BOOLEAN, ban_private_match : BOOLEAN,
     ban_reset_puzzle : {TRUE}, allow_reset_puzzle : {FALSE}]

(* watch::channel(true) and spawn(sleep(limit_connection_duration)) *)
NoSignal ==
    /\ running = TRUE
    /\ timeout = [c \in Conns |-> FALSE]

(* ServerState::new and ConnectionState::new *)
InitServer ==
    /\ match_id = FirstMatchId
    /\ matches = EmptyMap
    /\ public_matches = EmptyMap
    /\ history = <<>>
    /\ chan = [k \in Chans |-> DeadChan]
    /\ nchan = 0
    /\ state = [c \in Conns |-> "Idle"]
    /\ m = [c \in Conns |-> <<>>]
    /\ tx = [c \in Conns |-> <<>>]
    /\ rx = [c \in Conns |-> <<>>]
    /\ pc = [c \in Conns |-> "select"]
    /\ loc = [c \in Conns |-> NoLoc]
    /\ sent = [c \in Conns |-> <<>>]
    /\ assigned = <<>>

Init ==
    /\ NoSignal
    /\ InitServer
    /\ config = DefaultConfig
    /\ c2s = [c \in Conns |-> <<>>]
    /\ s2c = [c \in Conns |-> <<>>]

(* the connection's channel ends are dropped with cs; the task is over *)
DropConnAs(c, ch, end) ==
    /\ chan' = DropRxOpt(DropTxOpt(ch, tx[c]), rx[c])
    /\ tx' = [tx EXCEPT ![c] = <<>>]
    /\ rx' = [rx EXCEPT ![c] = <<>>]
    /\ m' = [m EXCEPT ![c] = <<>>]
    /\ sent' = [sent EXCEPT ![c] = <<>>]
    /\ loc' = [loc EXCEPT ![c] = NoLoc]
    /\ pc' = [pc EXCEPT ![c] = end]

DropConn(c, ch) == DropConnAs(c, ch, "done")

(* handle_connection after the loop, `match cs.state`: the first registry *)
(* the cleanup takes                                                       *)
CleanupStep(c, ch, end) ==
    CASE state[c] = "Idle" ->
           /\ DropConnAs(c, ch, end)
           /\ UNCHANGED <<matches, public_matches, history>>
      [] state[c] = "Waiting" /\ m[c][1].visibility = "Public" ->
           /\ ~PublicLocked
           /\ public_matches' = MapRemove(public_matches, m[c][1].passcode)
           /\ pc' = [pc EXCEPT ![c] = "cleanup_matches"]
           /\ loc' = [loc EXCEPT ![c].end = end]
           /\ chan' = ch
           /\ UNCHANGED <<matches, history, tx, rx, m, sent>>
      [] state[c] = "Waiting" /\ m[c][1].visibility # "Public" ->
           /\ ~MatchesLocked
           /\ matches' = MapRemove(matches, m[c][1].passcode)
           /\ DropConnAs(c, DropEntry(ch, matches, m[c][1].passcode), end)
           /\ UNCHANGED <<public_matches, history>>
      [] state[c] = "Playing" ->
           /\ history' = HistoryComplete(history, m[c][1].match_id)
           /\ DropConnAs(c, ch, end)
           /\ UNCHANGED <<matches, public_matches>>

(* A handler of an Idle connection returned an error: nothing to clean *)
FailIdle(c, ch, end) ==
    /\ DropConnAs(c, ch, end)
    /\ UNCHANGED <<matches, public_matches, history, state>>

(* mutant: the concurrent-match limit compared with > instead of >= *)
CreateCheckOffByOne(c, mi) ==
    /\ pc[c] = "select" /\ state[c] = "Idle"
    /\ ~MatchesLocked
    /\ nchan + CreatesPending < MaxMatch
    /\ IF mi.variant \notin ConfigVariants
       THEN FailIdle(c, chan, ErrInvalidData)
       ELSE IF Cardinality(DOMAIN matches) > LimitConcurrentMatch
       THEN FailIdle(c, chan, ErrLimit)
       ELSE /\ pc' = [pc EXCEPT ![c] = "create_lock"]
            /\ loc' = [loc EXCEPT ![c] = [NoLoc EXCEPT !.m = <<UnpackCreate(mi)>>]]
            /\ sent' = [sent EXCEPT ![c] = <<>>]
            /\ UNCHANGED <<matches, public_matches, history, chan, state, m, tx, rx>>
    /\ UNCHANGED <<match_id, nchan, assigned>>
    /\ UNCHANGED iovars

(* Idle, Create: the variant check and the read of matches.len() *)
CreateCheck(c, mi) ==
    /\ pc[c] = "select" /\ state[c] = "Idle"
    /\ ~MatchesLocked
    /\ nchan + CreatesPending < MaxMatch
    /\ IF mi.variant \notin ConfigVariants
       THEN FailIdle(c, chan, ErrInvalidData)
       ELSE IF Cardinality(DOMAIN matches) >= LimitConcurrentMatch
       THEN FailIdle(c, chan, ErrLimit)
       ELSE /\ pc' = [pc EXCEPT ![c] = "create_lock"]
            /\ loc' = [loc EXCEPT ![c] = [NoLoc EXCEPT !.m = <<UnpackCreate(mi)>>]]
            /\ sent' = [sent EXCEPT ![c] = <<>>]
            /\ UNCHANGED <<matches, public_matches, history, chan, state, m, tx, rx>>
    /\ UNCHANGED <<match_id, nchan, assigned>>
    /\ UNCHANGED iovars

(* Idle, Create: public_matches.write(), the public cap, the passcode drawn *)
(* under the matches lock, the two channels and InternalInitialize          *)
CreateLock(c) ==
    /\ pc[c] = "create_lock"
    /\ ~PublicLocked /\ ~MatchesLocked
    /\ LET s == loc[c].m[1] IN
       IF s.visibility = "Public"
          /\ Cardinality(DOMAIN public_matches) >= LimitPublicWaiting
       THEN /\ FailIdle(c, chan, ErrLimit)
            /\ UNCHANGED nchan
       ELSE IF Passcodes \ DOMAIN matches = {}
       THEN /\ pc' = [pc EXCEPT ![c] = "create_spin"]
            /\ UNCHANGED <<loc, chan, nchan, tx, rx, m, sent, state,
                           matches, public_matches, history>>
       ELSE \E p \in Passcodes \ DOMAIN matches :
            /\ nchan' = nchan + 1
            /\ chan' = [chan EXCEPT ![nchan + 1] = NewChan]
            /\ tx' = [tx EXCEPT ![c] = <<HostTx(nchan + 1)>>]
            /\ rx' = [rx EXCEPT ![c] = <<HostRx(nchan + 1)>>]
            /\ loc' = [loc EXCEPT ![c].m = <<[s EXCEPT !.passcode = p]>>]
            /\ pc' = [pc EXCEPT ![c] = "create_insert"]
            /\ UNCHANGED <<m, sent, state, matches, public_matches, history>>
    /\ UNCHANGED <<match_id, assigned>>
    /\ UNCHANGED iovars

(* the Public arm of `match m.visibility`: fetch_add and the listing *)
CreateArmPublic(s) ==
    /\ match_id' = match_id + 1
    /\ assigned' = Append(assigned, match_id)
    /\ public_matches' = MapInsert(public_matches, s.passcode,
                             WithoutVisibility([s EXCEPT !.match_id = match_id]))

(* mutant: the Private arm hands out the counter without incrementing it *)
CreateArmPrivateNoIncrement(s) ==
    /\ match_id' = match_id
    /\ assigned' = Append(assigned, match_id)
    /\ UNCHANGED public_matches

(* the Private arm of `match m.visibility`: fetch_add only *)
CreateArmPrivate(s) ==
    /\ match_id' = match_id + 1
    /\ assigned' = Append(assigned, match_id)
    /\ UNCHANGED public_matches

(* Idle, Create: insert into matches, assign the match id, list the match, *)
(* move to Waiting and reply Success; the public_matches guard is released *)
CreateInsert(c) ==
    /\ pc[c] = "create_insert"
    /\ LET s == loc[c].m[1]
           s1 == [s EXCEPT !.match_id = match_id]
       IN  /\ matches' = MapInsert(matches, s.passcode, tx[c][1].ch)
           /\ IF s.visibility = "Public" THEN CreateArmPublic(s)
                                         ELSE CreateArmPrivate(s)
           /\ m' = [m EXCEPT ![c] = <<s1>>]
           /\ state' = [state EXCEPT ![c] = "Waiting"]
           /\ sent' = [sent EXCEPT ![c] = <<S2CCreateOrJoinSuccess(s1)>>]
    /\ pc' = [pc EXCEPT ![c] = "select"]
    /\ loc' = [loc EXCEPT ![c] = NoLoc]
    /\ UNCHANGED <<history, chan, nchan, tx, rx>>
    /\ UNCHANGED iovars

(* mutant: the Join that reads the entry and leaves it in matches *)
JoinRemoveKeepsEntry(c, p) ==
    /\ pc[c] = "select" /\ state[c] = "Idle"
    /\ ~MatchesLocked
    /\ IF p \in DOMAIN matches
       THEN /\ loc' = [loc EXCEPT ![c] =
                          [NoLoc EXCEPT !.rx = <<PeerRx(matches[p])>>, !.passcode = p]]
            /\ pc' = [pc EXCEPT ![c] = "join_public"]
            /\ sent' = [sent EXCEPT ![c] = <<>>]
       ELSE /\ sent' = [sent EXCEPT ![c] = <<S2CCreateOrJoinFailed>>]
            /\ UNCHANGED <<loc, pc>>
    /\ UNCHANGED <<match_id, matches, public_matches, history, chan, nchan, state,
                   m, tx, rx, assigned>>
    /\ UNCHANGED iovars

(* Idle, Join: matches.write().remove(&passcode); Failed when absent *)
JoinRemove(c, p) ==
    /\ pc[c] = "select" /\ state[c] = "Idle"
    /\ ~MatchesLocked
    /\ IF p \in DOMAIN matches
       THEN /\ matches' = MapRemove(matches, p)
            /\ loc' = [loc EXCEPT ![c] =
                          [NoLoc EXCEPT !.rx = <<PeerRx(matches[p])>>, !.passcode = p]]
            /\ pc' = [pc EXCEPT ![c] = "join_public"]
            /\ sent' = [sent EXCEPT ![c] = <<>>]
       ELSE /\ sent' = [sent EXCEPT ![c] = <<S2CCreateOrJoinFailed>>]
            /\ UNCHANGED <<matches, loc, pc>>
    /\ UNCHANGED <<match_id, public_matches, history, chan, nchan, state, m,
                   tx, rx, assigned>>
    /\ UNCHANGED iovars

(* Idle, Join: public_matches.write().remove(&passcode) gives the visibility *)
JoinPublic(c) ==
    /\ pc[c] = "join_public"
    /\ ~PublicLocked
    /\ public_matches' = MapRemove(public_matches, loc[c].passcode)
    /\ loc' = [loc EXCEPT ![c].visibility =
                  IF loc[c].passcode \in DOMAIN public_matches
                  THEN "Public" ELSE "Private"]
    /\ pc' = [pc EXCEPT ![c] = "join_notify"]
    /\ UNCHANGED <<match_id, matches, history, chan, nchan, state, m, tx, rx,
                   sent, assigned>>
    /\ UNCHANGED iovars

(* the task panics: it unwinds and cs is dropped without cleanup *)
Panic(c, ch) ==
    /\ DropConnAs(c, ch, "panicked")
    /\ UNCHANGED <<matches, public_matches, history, state>>

(* Idle, Join: the first recv() and send_to_peer(InternalJoin) *)
JoinNotify(c) ==
    /\ pc[c] = "join_notify"
    /\ LET e == loc[c].rx[1] IN
       \/ /\ CanRecv(chan, e)
          /\ IF Head(Queue(chan, e)).type # "InternalInitialize"
             THEN (* unreachable!() *)
                  Panic(c, DropRx(chan, e))
             ELSE IF CanSend(chan, PeerTx(e.ch))
             THEN /\ chan' = Push(Pop(chan, e), PeerTx(e.ch), Msg("InternalJoin"))
                  /\ tx' = [tx EXCEPT ![c] = <<PeerTx(e.ch)>>]
                  /\ pc' = [pc EXCEPT ![c] = "join_wait"]
                  /\ UNCHANGED <<loc, matches, public_matches, history, state,
                                 m, rx, sent>>
             ELSE (* SendError: the handler fails, its rx and cs.tx are dropped *)
                  FailIdle(c, DropTx(DropRx(Pop(chan, e), e), PeerTx(e.ch)),
                           ErrSend("InternalJoin"))
       \/ /\ RecvClosed(chan, e)
          /\ FailIdle(c, DropRx(chan, e), ErrClosed)
    /\ UNCHANGED <<match_id, nchan, assigned>>
    /\ UNCHANGED iovars

(* mutant: the joiner's second recv() that never sees the channel closed *)
JoinWaitIgnoresClosed(c) ==
    /\ pc[c] = "join_wait"
    /\ LET e == loc[c].rx[1] IN
       /\ CanRecv(chan, e)
       /\ LET msg == Head(Queue(chan, e)) IN
          IF msg.type # "InternalMatchStart"
          THEN Panic(c, DropRx(chan, e))
          ELSE LET body == msg.body[1]
                   s == MatchSettingsNew(body.m, loc[c].visibility)
               IN  /\ chan' = Pop(chan, e)
                   /\ rx' = [rx EXCEPT ![c] = <<e>>]
                   /\ history' = HistoryInsert(history, body.match_id,
                                     ServerHistoryMatchNew(body.match_id, s))
                   /\ m' = [m EXCEPT ![c] = <<s>>]
                   /\ state' = [state EXCEPT ![c] = "Playing"]
                   /\ sent' = [sent EXCEPT ![c] =
                                  <<S2CCreateOrJoinSuccess(s), S2CMatchStart(body)>>]
                   /\ pc' = [pc EXCEPT ![c] = "select"]
                   /\ loc' = [loc EXCEPT ![c] = NoLoc]
                   /\ UNCHANGED <<tx, matches, public_matches>>
    /\ UNCHANGED <<match_id, nchan, assigned>>
    /\ UNCHANGED iovars

(* Idle, Join: the second recv(), the history entry, Playing, the replies *)
JoinWait(c) ==
    /\ pc[c] = "join_wait"
    /\ LET e == loc[c].rx[1] IN
       \/ /\ CanRecv(chan, e)
          /\ LET msg == Head(Queue(chan, e)) IN
             IF msg.type # "InternalMatchStart"
             THEN (* unreachable!() *)
                  Panic(c, DropRx(chan, e))
             ELSE LET body == msg.body[1]
                      s == MatchSettingsNew(body.m, loc[c].visibility)
                  IN  /\ chan' = Pop(chan, e)
                      /\ rx' = [rx EXCEPT ![c] = <<e>>]
                      /\ history' = HistoryInsert(history, body.match_id,
                                        ServerHistoryMatchNew(body.match_id, s))
                      /\ m' = [m EXCEPT ![c] = <<s>>]
                      /\ state' = [state EXCEPT ![c] = "Playing"]
                      /\ sent' = [sent EXCEPT ![c] =
                                     <<S2CCreateOrJoinSuccess(s), S2CMatchStart(body)>>]
                      /\ pc' = [pc EXCEPT ![c] = "select"]
                      /\ loc' = [loc EXCEPT ![c] = NoLoc]
                      /\ UNCHANGED <<tx, matches, public_matches>>
       \/ /\ RecvClosed(chan, e)
          /\ FailIdle(c, DropRx(chan, e), ErrClosed)
    /\ UNCHANGED <<match_id, nchan, assigned>>
    /\ UNCHANGED iovars

(* Waiting, C2SMatchCancel: public_matches.remove(&passcode) *)
WaitingCancel(c) ==
    /\ pc[c] = "select" /\ state[c] = "Waiting"
    /\ ~PublicLocked
    /\ public_matches' = MapRemove(public_matches, m[c][1].passcode)
    /\ pc' = [pc EXCEPT ![c] = "cancel_matches"]
    /\ sent' = [sent EXCEPT ![c] = <<>>]
    /\ UNCHANGED <<match_id, matches, history, chan, nchan, state, m, tx, rx,
                   loc, assigned>>
    /\ UNCHANGED iovars

(* mutant: the Cancel that leaves its entry in matches *)
CancelMatchesKeepsEntry(c) ==
    /\ pc[c] = "cancel_matches"
    /\ ~MatchesLocked
    /\ matches' = matches
    /\ chan' = DropRxOpt(DropTxOpt(chan, tx[c]), rx[c])
    /\ tx' = [tx EXCEPT ![c] = <<>>]
    /\ rx' = [rx EXCEPT ![c] = <<>>]
    /\ m' = [m EXCEPT ![c] = <<>>]
    /\ state' = [state EXCEPT ![c] = "Idle"]
    /\ sent' = [sent EXCEPT ![c] = <<S2CCancelSuccess>>]
    /\ pc' = [pc EXCEPT ![c] = "select"]
    /\ UNCHANGED <<match_id, public_matches, history, nchan, loc, assigned>>
    /\ UNCHANGED iovars

(* Waiting, C2SMatchCancel: matches.remove(&passcode), the channels dropped, *)
(* Idle, reply Success                                                       *)
CancelMatches(c) ==
    /\ pc[c] = "cancel_matches"
    /\ ~MatchesLocked
    /\ LET p == m[c][1].passcode IN
       /\ matches' = MapRemove(matches, p)
       /\ chan' = DropRxOpt(DropTxOpt(DropEntry(chan, matches, p), tx[c]), rx[c])
    /\ tx' = [tx EXCEPT ![c] = <<>>]
    /\ rx' = [rx EXCEPT ![c] = <<>>]
    /\ m' = [m EXCEPT ![c] = <<>>]
    /\ state' = [state EXCEPT ![c] = "Idle"]
    /\ sent' = [sent EXCEPT ![c] = <<S2CCancelSuccess>>]
    /\ pc' = [pc EXCEPT ![c] = "select"]
    /\ UNCHANGED <<match_id, public_matches, history, nchan, loc, assigned>>
    /\ UNCHANGED iovars

(* the S2CMatchStartBody a host builds from cs.m with the draws v and col *)
StartBody(s, v, col) ==
    [m |-> [WithoutVisibility(s) EXCEPT !.variant = v, !.color = col],
     match_id |-> s.match_id]

(* the body sent on to the joiner: body.m.color.reversed() *)
PeerStartBody(body) == [body EXCEPT !.m.color = reversed(body.m.color)]

(* Waiting, a message from cs.rx: InternalJoin starts the match *)
WaitingRecv(c) ==
    /\ pc[c] = "select" /\ state[c] = "Waiting"
    /\ CanRecv(chan, rx[c][1])
    /\ LET e == rx[c][1]
           msg == Head(Queue(chan, e))
           s == m[c][1]
       IN  IF msg.type = "InternalJoin" /\ CanSend(chan, tx[c][1])
           THEN \E v \in determinedVariant(s.variant), col \in determined(s.color) :
                LET body == StartBody(s, v, col) IN
                /\ state' = [state EXCEPT ![c] = "Playing"]
                /\ sent' = [sent EXCEPT ![c] = <<S2CMatchStart(body)>>]
                /\ chan' = Push(Pop(chan, e), tx[c][1], MsgStart(PeerStartBody(body)))
                /\ UNCHANGED <<pc, loc, matches, public_matches, history, m, tx, rx>>
           ELSE IF msg.type = "InternalJoin"
           THEN (* SendError after cs.state = Playing: cleanup of a Playing task *)
                /\ history' = HistoryComplete(history, s.match_id)
                /\ DropConnAs(c, Pop(chan, e), ErrSend("InternalMatchStart"))
                /\ state' = [state EXCEPT ![c] = "Playing"]
                /\ UNCHANGED <<matches, public_matches>>
           ELSE (* Invalid message at state Waiting *)
                /\ CleanupStep(c, Pop(chan, e), ErrInvalidData)
                /\ UNCHANGED state
    /\ UNCHANGED <<match_id, nchan, assigned>>
    /\ UNCHANGED iovars

(* Waiting, cs.rx.recv() returns Closed: `result?` leaves the loop *)
WaitingRecvClosed(c) ==
    /\ pc[c] = "select" /\ state[c] = "Waiting"
    /\ RecvClosed(chan, rx[c][1])
    /\ CleanupStep(c, chan, ErrClosed)
    /\ UNCHANGED <<match_id, nchan, state, assigned>>
    /\ UNCHANGED iovars

(* mutant: leaving a match sets the phase to Waiting *)
LeaveMatchToWaiting(c, ch, replies) ==
    /\ history' = HistoryComplete(history, m[c][1].match_id)
    /\ chan' = DropRxOpt(DropTxOpt(ch, tx[c]), rx[c])
    /\ tx' = [tx EXCEPT ![c] = <<>>]
    /\ rx' = [rx EXCEPT ![c] = <<>>]
    /\ m' = [m EXCEPT ![c] = <<>>]
    /\ state' = [state EXCEPT ![c] = "Waiting"]
    /\ sent' = [sent EXCEPT ![c] = replies]
    /\ UNCHANGED <<pc, loc>>

(* mutant: leaving a match keeps cs.m *)
LeaveMatchKeepsSettings(c, ch, replies) ==
    /\ history' = HistoryComplete(history, m[c][1].match_id)
    /\ chan' = DropRxOpt(DropTxOpt(ch, tx[c]), rx[c])
    /\ tx' = [tx EXCEPT ![c] = <<>>]
    /\ rx' = [rx EXCEPT ![c] = <<>>]
    /\ m' = m
    /\ state' = [state EXCEPT ![c] = "Idle"]
    /\ sent' = [sent EXCEPT ![c] = replies]
    /\ UNCHANGED <<pc, loc>>

(* Playing: history entry Completed, channels dropped, Idle *)
LeaveMatch(c, ch, replies) ==
    /\ history' = HistoryComplete(history, m[c][1].match_id)
    /\ chan' = DropRxOpt(DropTxOpt(ch, tx[c]), rx[c])
    /\ tx' = [tx EXCEPT ![c] = <<>>]
    /\ rx' = [rx EXCEPT ![c] = <<>>]
    /\ m' = [m EXCEPT ![c] = <<>>]
    /\ state' = [state EXCEPT ![c] = "Idle"]
    /\ sent' = [sent EXCEPT ![c] = replies]
    /\ UNCHANGED <<pc, loc>>

(* Playing, C2SForfeit: send_to_peer(InternalForfeit), then leave the match; *)
(* a SendError leaves the loop with the connection still Playing            *)
PlayingForfeit(c) ==
    /\ pc[c] = "select" /\ state[c] = "Playing"
    /\ IF CanSend(chan, tx[c][1])
       THEN LeaveMatch(c, Push(chan, tx[c][1], Msg("InternalForfeit")), <<>>)
       ELSE /\ CleanupStep(c, chan, ErrSend("InternalForfeit"))
            /\ UNCHANGED state
    /\ UNCHANGED <<match_id, matches, public_matches, nchan, assigned>>
    /\ UNCHANGED iovars

(* the message_id the server wrote last, 1 before the first action *)
RECURSIVE MaxMessageId(_)
MaxMessageId(frames) ==
    IF frames = <<>> THEN 1
    ELSE LET r == MaxMessageId(Tail(frames))
             t == UnpackAction(Head(frames)).message_id
         IN  IF t > r THEN t ELSE r

LastTime == MaxMessageId(s2c[1] \o s2c[2])

(* mutant: the action handler that relays and does not echo *)
PlayingActionNoEcho(c, w, t) ==
    /\ pc[c] = "select" /\ state[c] = "Playing"
    /\ c2s' = [c2s EXCEPT ![c] = Append(@, w)]
    /\ LET body == UnpackAction(w)
           b1 == [body EXCEPT !.message_id = t]
       IN  IF ~config.allow_reset_puzzle /\ body.action_type = ActionTypeResetPuzzle
           THEN /\ CleanupStep(c, chan, ErrInvalidData)
                /\ UNCHANGED <<state, s2c>>
           ELSE IF CanSend(chan, tx[c][1])
           THEN /\ chan' = Push(chan, tx[c][1], MsgAction(b1))
                /\ sent' = [sent EXCEPT ![c] = <<>>]
                /\ UNCHANGED <<s2c, state, m, tx, rx, pc, loc, matches,
                               public_matches, history>>
           ELSE /\ CleanupStep(c, chan, ErrSend("InternalAction"))
                /\ UNCHANGED <<state, s2c>>
    /\ UNCHANGED <<match_id, nchan, assigned, config, running, timeout>>

(* Playing, C2SOrS2CAction from the client, handled at server time t: the *)
(* ResetPuzzle test, the time stamp, send_to_peer(InternalAction) and the *)
(* echo                                                                   *)
PlayingAction(c, w, t) ==
    /\ pc[c] = "select" /\ state[c] = "Playing"
    /\ c2s' = [c2s EXCEPT ![c] = Append(@, w)]
    /\ LET body == UnpackAction(w)
           b1 == [body EXCEPT !.message_id = t]
       IN  IF ~config.allow_reset_puzzle /\ body.action_type = ActionTypeResetPuzzle
           THEN /\ CleanupStep(c, chan, ErrInvalidData)
                /\ UNCHANGED <<state, s2c>>
           ELSE IF CanSend(chan, tx[c][1])
           THEN /\ chan' = Push(chan, tx[c][1], MsgAction(b1))
                /\ s2c' = [s2c EXCEPT ![c] = Append(@, PackAction(b1))]
                /\ sent' = [sent EXCEPT ![c] = <<S2CAction(b1)>>]
                /\ UNCHANGED <<state, m, tx, rx, pc, loc, matches,
                               public_matches, history>>
           ELSE /\ CleanupStep(c, chan, ErrSend("InternalAction"))
                /\ UNCHANGED <<state, s2c>>
    /\ UNCHANGED <<match_id, nchan, assigned, config, running, timeout>>

(* Playing, a message from cs.rx: InternalForfeit ends the match, *)
(* InternalAction is put on the client socket                     *)
PlayingRecv(c) ==
    /\ pc[c] = "select" /\ state[c] = "Playing"
    /\ CanRecv(chan, rx[c][1])
    /\ LET msg == Head(Queue(chan, rx[c][1])) IN
       IF msg.type = "InternalForfeit"
       THEN /\ LeaveMatch(c, Pop(chan, rx[c][1]), <<S2COpponentLeft>>)
            /\ UNCHANGED s2c
       ELSE IF msg.type = "InternalAction"
       THEN /\ chan' = Pop(chan, rx[c][1])
            /\ s2c' = [s2c EXCEPT ![c] = Append(@, PackAction(msg.body[1]))]
            /\ sent' = [sent EXCEPT ![c] = <<S2CAction(msg.body[1])>>]
            /\ UNCHANGED <<state, m, tx, rx, pc, loc, history>>
       ELSE (* Invalid message at state Playing *)
            /\ CleanupStep(c, Pop(chan, rx[c][1]), ErrInvalidData)
            /\ UNCHANGED <<state, s2c>>
    /\ UNCHANGED <<match_id, matches, public_matches, nchan, assigned>>
    /\ UNCHANGED <<config, c2s, running, timeout>>

(* Playing, cs.rx.recv() returns Lagged: `Err(e)?` leaves the loop *)
PlayingRecvLagged(c) ==
    /\ pc[c] = "select" /\ state[c] = "Playing"
    /\ RecvLagged(chan, rx[c][1])
    /\ CleanupStep(c, chan, ErrLagged)
    /\ UNCHANGED <<match_id, matches, public_matches, nchan, state, assigned>>
    /\ UNCHANGED iovars

(* Playing, cs.rx.recv() returns Closed: handled as InternalForfeit *)
PlayingRecvClosed(c) ==
    /\ pc[c] = "select" /\ state[c] = "Playing"
    /\ RecvClosed(chan, rx[c][1])
    /\ LeaveMatch(c, chan, <<S2COpponentLeft>>)
    /\ UNCHANGED <<match_id, matches, public_matches, nchan, assigned>>
    /\ UNCHANGED iovars

(* The loop is left from select!: the client socket closed or sent what   *)
(* the state does not accept, the shutdown signal, or the deadline; the    *)
(* cleanup starts                                                          *)
LoopExit(c) ==
    /\ pc[c] = "select"
    /\ CleanupStep(c, chan, "done")
    /\ UNCHANGED <<match_id, nchan, state, assigned>>
    /\ UNCHANGED iovars

(* cleanup of a Public Waiting connection: matches.write().remove(&passcode) *)
CleanupMatches(c) ==
    /\ pc[c] = "cleanup_matches"
    /\ ~MatchesLocked
    /\ matches' = MapRemove(matches, m[c][1].passcode)
    /\ DropConnAs(c, DropEntry(chan, matches, m[c][1].passcode), loc[c].end)
    /\ UNCHANGED <<match_id, public_matches, history, nchan, state, assigned>>
    /\ UNCHANGED iovars

(* what the clients of the model send in a Create *)
CreateInputs ==
    { [color |-> "Random", clock |-> "Short", variant |-> "Random",
       visibility |-> "Public"],
      [color |-> "None", clock |-> "Long", variant |-> "Standard",
       visibility |-> "Private"],
      [color |-> "White", clock |-> "NoClock", variant |-> "Standard",
       visibility |-> "Public"],
      [color |-> "Black", clock |-> "Medium", variant |-> "Banned",
       visibility |-> "Private"] }

Next ==
    \E c \in Conns :
        \/ \E mi \in CreateInputs : CreateCheck(c, mi)
        \/ CreateLock(c)
        \/ CreateInsert(c)
        \/ \E p \in Passcodes : JoinRemove(c, p)
        \/ JoinPublic(c)
        \/ JoinNotify(c)
        \/ JoinWait(c)
        \/ WaitingCancel(c)
        \/ CancelMatches(c)
        \/ WaitingRecv(c)
        \/ WaitingRecvClosed(c)
        \/ PlayingForfeit(c)
        \/ PlayingRecv(c)
        \/ PlayingRecvClosed(c)
        \/ LoopExit(c)
        \/ CleanupMatches(c)

Spec == Init /\ [][Next]_vars

(* ------------------------------------------------------------------ *)
(* Hosts on their own: Creates, cancels, the messages an Idle         *)
(* connection answers in place, and exits, under every setting of the *)
(* visibility bans                                                    *)
(* ------------------------------------------------------------------ *)

(* mutant: the Idle connection that answers a Cancel with Success *)
IdleCancelSucceeds(c) ==
    /\ pc[c] = "select" /\ state[c] = "Idle"
    /\ sent' = [sent EXCEPT ![c] = <<S2CCancelSuccess>>]
    /\ UNCHANGED <<match_id, matches, public_matches, history, chan, nchan, state,
                   m, tx, rx, pc, loc, assigned>>
    /\ UNCHANGED iovars

(* Idle, C2SMatchCancel: reply Failed *)
IdleCancel(c) ==
    /\ pc[c] = "select" /\ state[c] = "Idle"
    /\ sent' = [sent EXCEPT ![c] = <<S2CCancelFailed>>]
    /\ UNCHANGED <<match_id, matches, public_matches, history, chan, nchan, state,
                   m, tx, rx, pc, loc, assigned>>
    /\ UNCHANGED iovars

(* Idle, C2SForfeit: nothing *)
IdleForfeit(c) ==
    /\ pc[c] = "select" /\ state[c] = "Idle"
    /\ sent' = [sent EXCEPT ![c] = <<>>]
    /\ UNCHANGED <<match_id, matches, public_matches, history, chan, nchan, state,
                   m, tx, rx, pc, loc, assigned>>
    /\ UNCHANGED iovars

InitHost ==
    /\ NoSignal
    /\ InitServer
    /\ config \in BanConfigs
    /\ c2s = [c \in Conns |-> <<>>]
    /\ s2c = [c \in Conns |-> <<>>]

NextHost ==
    \E c \in Conns :
        \/ \E mi \in CreateInputs : CreateCheck(c, mi)
        \/ CreateLock(c)
        \/ CreateInsert(c)
        \/ WaitingCancel(c)
        \/ CancelMatches(c)
        \/ IdleCancel(c)
        \/ IdleForfeit(c)
        \/ LoopExit(c)
        \/ CleanupMatches(c)

SpecHost == InitHost /\ [][NextHost]_vars

(* ------------------------------------------------------------------ *)
(* The match list request                                             *)
(* ------------------------------------------------------------------ *)

(* slots of the two arrays of S2CMatchListNonhostBody *)
ListSlots == 13

(* S2CMatchListServerHistoryMatch::from, without seconds_passed *)
HistorySlot(hm) ==
    [status |-> hm.status, clock |-> hm.clock, variant |-> hm.variant,
     visibility |-> hm.visibility]

(* the slot the array is filled with before the loops *)
DefaultHistorySlot ==
    [status |-> "Completed", clock |-> "None", variant |-> "Standard",
     visibility |-> "Public"]

(* the keys of f in ascending order, and that order started at its k-th key *)
RECURSIVE SortedKeys(_)
SortedKeys(S) ==
    IF S = {} THEN <<>>
    ELSE LET lo == CHOOSE x \in S : \A y \in S : x <= y
         IN  <<lo>> \o SortedKeys(S \ {lo})

Rotate(q, k) == SubSeq(q, k, Len(q)) \o SubSeq(q, 1, k - 1)

(* HashMap::iter visits the entries in an order of its own: the orders *)
(* tried are the rotations of the ascending one                        *)
IterOrders(f) ==
    IF DOMAIN f = {} THEN {<<>>}
    ELSE {Rotate(SortedKeys(DOMAIN f), k) : k \in 1..Cardinality(DOMAIN f)}

(* the first loop: the entries in iteration order, the host's own match *)
(* skipped, until ListSlots entries are taken                           *)
RECURSIVE CollectPublic(_, _, _, _)
CollectPublic(f, order, own, acc) ==
    IF order = <<>> THEN acc
    ELSE LET pm == f[Head(order)] IN
         IF own # <<>> /\ own[1].match_id = pm.match_id
         THEN CollectPublic(f, Tail(order), own, acc)
         ELSE IF Len(acc) >= ListSlots THEN acc
         ELSE CollectPublic(f, Tail(order), own, Append(acc, pm))

(* mutant: the second loop that fills the slots in insertion order *)
CollectHistoryForward(h, count) ==
    [k \in 1..count |-> IF k <= Len(h) THEN HistorySlot(h[k]) ELSE DefaultHistorySlot]

(* the second loop: entry i (from 0) goes to slot count - i - 1 *)
CollectHistory(h, count) ==
    [k \in 1..count |->
        IF count - k + 1 <= Len(h) THEN HistorySlot(h[count - k + 1])
                                   ELSE DefaultHistorySlot]

(* C2SMatchListRequest: server_history_matches.read().await.len() *)
ListCount(c) ==
    /\ pc[c] = "select"
    /\ loc' = [loc EXCEPT ![c] = [NoLoc EXCEPT !.count = Len(history),
                 !.m = IF state[c] = "Waiting" THEN m[c] ELSE <<>>]]
    /\ pc' = [pc EXCEPT ![c] = "list_public"]
    /\ sent' = [sent EXCEPT ![c] = <<>>]
    /\ UNCHANGED <<match_id, matches, public_matches, history, chan, nchan, state,
                   m, tx, rx, assigned>>
    /\ UNCHANGED iovars

(* mutant: the first loop that does not skip the host's own match *)
ListPublicNoSkip(c) ==
    /\ pc[c] = "list_public"
    /\ ~PublicLocked
    /\ \E order \in IterOrders(public_matches) :
          loc' = [loc EXCEPT ![c].list =
                     CollectPublic(public_matches, order, <<>>, <<>>)]
    /\ pc' = [pc EXCEPT ![c] = "list_history"]
    /\ UNCHANGED <<match_id, matches, public_matches, history, chan, nchan, state,
                   m, tx, rx, sent, assigned>>
    /\ UNCHANGED iovars

(* the loop over public_matches.read().await.iter() *)
ListPublic(c) ==
    /\ pc[c] = "list_public"
    /\ ~PublicLocked
    /\ \E order \in IterOrders(public_matches) :
          loc' = [loc EXCEPT ![c].list =
                     CollectPublic(public_matches, order, loc[c].m, <<>>)]
    /\ pc' = [pc EXCEPT ![c] = "list_history"]
    /\ UNCHANGED <<match_id, matches, public_matches, history, chan, nchan, state,
                   m, tx, rx, sent, assigned>>
    /\ UNCHANGED iovars

(* the loop over server_history_matches.read().await.iter() and the reply; *)
(* with more entries than were counted the index count - i - 1 underflows  *)
(* and the task panics                                                     *)
ListHistory(c) ==
    /\ pc[c] = "list_history"
    /\ IF Len(history) > loc[c].count
       THEN Panic(c, chan)
       ELSE /\ sent' = [sent EXCEPT ![c] = <<S2CMatchList(
                  [host |-> loc[c].m,
                   public_matches |-> loc[c].list,
                   public_matches_count |-> Len(loc[c].list),
                   server_history_matches |-> CollectHistory(history, loc[c].count),
                   server_history_matches_count |-> loc[c].count])>>]
            /\ pc' = [pc EXCEPT ![c] = "select"]
            /\ loc' = [loc EXCEPT ![c] = NoLoc]
            /\ UNCHANGED <<matches, public_matches, history, chan, state, m, tx, rx>>
    /\ UNCHANGED <<match_id, nchan, assigned>>
    /\ UNCHANGED iovars

(* public matches listed and matches started before the request, matches *)
(* started while it is served                                            *)
MaxListed == 15
MaxListStarts == 2

ListedSettings(i) ==
    [color |-> "White", clock |-> IF i % 2 = 0 THEN "Short" ELSE "Long",
     variant |-> "Standard", passcode |-> i - 1, match_id |-> i]

PastMatch(i) ==
    [ServerHistoryMatchNew(MaxListed + i,
        MatchSettingsNew([ListedSettings(i) EXCEPT
                             !.clock = IF i % 3 = 0 THEN "NoClock" ELSE @],
                         IF i % 4 = 0 THEN "Private" ELSE "Public"))
      EXCEPT !.status = IF i % 2 = 0 THEN "InProgress" ELSE "Completed"]

(* connection 1 is Waiting on the first listed match, connection 2 is Idle *)
InitList ==
    /\ NoSignal
    /\ \E n \in 1..MaxListed, h \in 0..HistoryCap :
          /\ public_matches = [p \in 0..(n - 1) |-> ListedSettings(p + 1)]
          /\ matches = [p \in 0..(n - 1) |-> p + 1]
          /\ history = [i \in 1..h |-> PastMatch(i)]
          /\ match_id = MaxListed + h + 1
    /\ chan = [k \in Chans |-> IF k = 1 THEN NewChan ELSE DeadChan]
    /\ nchan = 1
    /\ state = [c \in Conns |-> IF c = 1 THEN "Waiting" ELSE "Idle"]
    /\ m = [c \in Conns |-> IF c = 1
                THEN <<MatchSettingsNew(ListedSettings(1), "Public")>> ELSE <<>>]
    /\ tx = [c \in Conns |-> IF c = 1 THEN <<HostTx(1)>> ELSE <<>>]
    /\ rx = [c \in Conns |-> IF c = 1 THEN <<HostRx(1)>> ELSE <<>>]
    /\ pc = [c \in Conns |-> "select"]
    /\ loc = [c \in Conns |-> NoLoc]
    /\ sent = [c \in Conns |-> <<>>]
    /\ assigned = <<>>
    /\ config = DefaultConfig
    /\ c2s = [c \in Conns |-> <<>>]
    /\ s2c = [c \in Conns |-> <<>>]

(* a joiner of some other match inserts its history entry *)
ListStart ==
    /\ Len(assigned) < MaxListStarts
    /\ history' = HistoryInsert(history, match_id,
                      ServerHistoryMatchNew(match_id,
                          MatchSettingsNew(ListedSettings(match_id), "Private")))
    /\ match_id' = match_id + 1
    /\ assigned' = Append(assigned, match_id)
    /\ UNCHANGED <<matches, public_matches, chan, nchan, state, m, tx, rx, pc,
                   loc, sent, iovars>>

Listers == {1, 2}

(* the requests only read shared state: they are served one after another *)
NextList ==
    \/ ListStart
    \/ \E c \in Listers :
        \/ /\ \A d \in Listers : pc[d] = "select" /\ sent[d] = <<>>
           /\ ListCount(c)
        \/ ListPublic(c)
        \/ ListHistory(c)

SpecList == InitList /\ [][NextList]_vars

(* ------------------------------------------------------------------ *)
(* Shutdown and deadlines: the server of Spec with the stop signal    *)
(* raised, or the sleep of one connection finished, at any moment     *)
(* ------------------------------------------------------------------ *)

(* ctrl-c: running_tx.send_if_modified sets the watched value to false *)
Shutdown ==
    /\ running
    /\ running' = FALSE
    /\ UNCHANGED <<srvvars, config, c2s, s2c, timeout>>

(* the sleep spawned for c is over; one deadline expires in a run *)
Deadline(c) ==
    /\ running
    /\ pc[c] \notin EndPcs
    /\ \A d \in Conns : ~timeout[d]
    /\ timeout' = [timeout EXCEPT ![c] = TRUE]
    /\ UNCHANGED <<srvvars, config, c2s, s2c, running>>

(* the Creates of the runs with a stop signal: settings without a draw *)
StopCreateInputs ==
    { mi \in CreateInputs : mi.variant = "Standard" /\ mi.color \in {"White", "None"} }

(* The passcode loop ends at once: the 2,985,984 passcodes are never all *)
(* keys of matches, so a Create starts only while a passcode is left for *)
(* it and for every Create already past its checks.                      *)
PasscodeLeft ==
    Cardinality(DOMAIN matches)
       + Cardinality({d \in Conns : pc[d] \in {"create_lock", "create_insert"}})
    < Cardinality(Passcodes)

NextStop ==
    \/ Shutdown
    \/ \E c \in Conns :
        \/ Deadline(c)
        \/ \E mi \in StopCreateInputs : PasscodeLeft /\ CreateCheck(c, mi)
        \/ CreateLock(c)
        \/ CreateInsert(c)
        \/ \E p \in Passcodes : JoinRemove(c, p)
        \/ JoinPublic(c)
        \/ JoinNotify(c)
        \/ JoinWait(c)
        \/ WaitingRecv(c)
        \/ WaitingRecvClosed(c)
        \/ PlayingRecvClosed(c)
        \/ LoopExit(c)
        \/ CleanupMatches(c)

(* select! takes a ready arm at random, so the stop arm, ready each time  *)
(* the task is back in select!, is taken; a task that can go on (a       *)
(* message on its rendezvous channel, the next step of its handler or of *)
(* its cleanup) is scheduled                                             *)
FairStop ==
    \A c \in Conns :
        /\ SF_vars((~running \/ timeout[c]) /\ LoopExit(c))
        /\ WF_vars(WaitingRecv(c) \/ WaitingRecvClosed(c) \/ PlayingRecvClosed(c)
                      \/ CreateLock(c) \/ CreateInsert(c) \/ JoinPublic(c)
                      \/ JoinNotify(c) \/ JoinWait(c) \/ CleanupMatches(c))

SpecStop == Init /\ [][NextStop]_vars /\ FairStop

(* ------------------------------------------------------------------ *)
(* The history log on its own: started matches and ended matches      *)
(* ------------------------------------------------------------------ *)

(* number of matches started in the history specification *)
MaxHistMatches == 15

HistSettings ==
    { MatchSettingsNew(WithoutVisibility(UnpackCreate(mi)), mi.visibility) :
        mi \in {x \in CreateInputs : x.variant \in VariantsWithoutRandom
                                       /\ x.visibility = "Public"} }

(* the joiner of the match with the next id inserts its history entry *)
HistInsert ==
    /\ match_id < FirstMatchId + MaxHistMatches
    /\ \E s \in HistSettings :
         history' = HistoryInsert(history, match_id, ServerHistoryMatchNew(match_id, s))
    /\ match_id' = match_id + 1
    /\ UNCHANGED <<matches, public_matches, chan, nchan, state, m, tx, rx, pc,
                   loc, sent, assigned, iovars>>

(* a peer of match id leaves it: the entry, if present, is Completed *)
HistComplete(id) ==
    /\ \E i \in 1..Len(history) :
         history[i].match_id = id /\ history[i].status = "InProgress"
    /\ history' = HistoryComplete(history, id)
    /\ UNCHANGED <<match_id, matches, public_matches, chan, nchan, state, m, tx,
                   rx, pc, loc, sent, assigned, iovars>>

NextHist ==
    \/ HistInsert
    \/ \E id \in FirstMatchId..(FirstMatchId + MaxHistMatches) : HistComplete(id)

SpecHist == Init /\ [][NextHist]_vars

(* ------------------------------------------------------------------ *)
(* A started match on its own: actions, forfeits and exits of the two *)
(* peers                                                              *)
(* ------------------------------------------------------------------ *)

(* action frames written in one run, latest server time *)
MaxActions == 2
MaxTime == 2

Peers == {1, 2}
ActionsWritten == Len(c2s[1]) + Len(c2s[2])

(* the frames the client of c writes: its connection in word 4 and the *)
(* number of the frame in word 5                                       *)
ActionInputs(c) ==
    { <<ty, c - 1, 0, c, Len(c2s[c]) + 1, 0, 1, 2, c, Len(c2s[c]) + 1, 1, 3, 4>> :
        ty \in {ActionTypeMove, ActionTypeResetPuzzle} }

(* connection 1 created a Public match, connection 2 joined it, both have *)
(* been sent S2CMatchStart                                                *)
MatchStarted ==
    LET s == [color |-> "White", clock |-> "NoClock", variant |-> "Standard",
              visibility |-> "Public", passcode |-> 0, match_id |-> FirstMatchId]
        body == StartBody(s, "Standard", "White")
        js == MatchSettingsNew(PeerStartBody(body).m, "Public")
        live == [h2j |-> Half(<<>>, TRUE), j2h |-> Half(<<>>, TRUE)]
    IN  /\ match_id = FirstMatchId + 1
        /\ matches = EmptyMap
        /\ public_matches = EmptyMap
        /\ history = <<ServerHistoryMatchNew(FirstMatchId, js)>>
        /\ chan = [k \in Chans |-> IF k = 1 THEN live ELSE DeadChan]
        /\ nchan = 1
        /\ state = [c \in Conns |-> IF c \in Peers THEN "Playing" ELSE "Idle"]
        /\ m = [c \in Conns |-> CASE c = 1 -> <<s>> [] c = 2 -> <<js>> [] OTHER -> <<>>]
        /\ tx = [c \in Conns |-> CASE c = 1 -> <<HostTx(1)>> [] c = 2 -> <<PeerTx(1)>>
                                   [] OTHER -> <<>>]
        /\ rx = [c \in Conns |-> CASE c = 1 -> <<HostRx(1)>> [] c = 2 -> <<PeerRx(1)>>
                                   [] OTHER -> <<>>]
        /\ pc = [c \in Conns |-> "select"]
        /\ loc = [c \in Conns |-> NoLoc]
        /\ sent = [c \in Conns |->
                     CASE c = 1 -> <<S2CMatchStart(body)>>
                       [] c = 2 -> <<S2CCreateOrJoinSuccess(js),
                                     S2CMatchStart(PeerStartBody(body))>>
                       [] OTHER -> <<>>]
        /\ assigned = <<FirstMatchId>>

InitPlay ==
    /\ NoSignal
    /\ MatchStarted
    /\ config \in Configs
    /\ c2s = [c \in Conns |-> <<>>]
    /\ s2c = [c \in Conns |-> <<>>]

NextPlay ==
    \E c \in Peers :
        \/ /\ ActionsWritten < MaxActions
           /\ \E w \in ActionInputs(c), t \in LastTime..MaxTime : PlayingAction(c, w, t)
        \/ PlayingRecv(c)
        \/ PlayingRecvClosed(c)
        \/ PlayingForfeit(c)
        \/ LoopExit(c)

SpecPlay == InitPlay /\ [][NextPlay]_vars

(* ------------------------------------------------------------------ *)
(* The action codec on its own: a frame is read and written back      *)
(* ------------------------------------------------------------------ *)

(* largest board coordinate in the frames of the codec specification *)
MaxCoord == 2

(* well-formed action payloads: 13 words, enum words in range *)
Payloads ==
    { <<ty, col, 0, 0, 1, col, sy, sx, 1, 2, 1 - col, dy, dx>> :
        ty \in {ActionTypeMove, ActionTypeResetPuzzle}, col \in {0, 1},
        sy \in 0..MaxCoord, sx \in 0..MaxCoord,
        dy \in 0..MaxCoord, dx \in 0..MaxCoord }

InitCodec ==
    /\ NoSignal
    /\ InitServer
    /\ config = DefaultConfig
    /\ \E w \in Payloads : c2s = [c \in Conns |-> IF c = 1 THEN <<w>> ELSE <<>>]
    /\ s2c = [c \in Conns |-> <<>>]

(* MessageIO::get of the frame and MessageIO::put of the message it gave *)
CodecEcho ==
    /\ s2c[1] = <<>>
    /\ s2c' = [s2c EXCEPT ![1] = <<PackAction(UnpackAction(c2s[1][1]))>>]
    /\ UNCHANGED <<srvvars, config, c2s, running, timeout>>

NextCodec == CodecEcho

SpecCodec == InitCodec /\ [][NextCodec]_vars

(* ------------------------------------------------------------------ *)
(* Properties                                                         *)
(* ------------------------------------------------------------------ *)

(* a connection between two events: in select!, no handler running *)
AtSelect(c) == pc[c] = "select"
(* c is the host of channel pair k / the joiner of channel pair k *)
IsHostOf(c, k) == tx[c] = <<HostTx(k)>>
IsJoinerOf(c, k) == tx[c] = <<PeerTx(k)>>
(* c waits in select! as the host of a created match *)
WaitingHost(c) == AtSelect(c) /\ state[c] = "Waiting"

(* C1: every passcode that is a key of public_matches is also a key of *)
(* waiting_matches, in every reachable state.                          *)
C1_PublicSubsetOfWaiting ==
    DOMAIN public_matches \subseteq DOMAIN matches

(* C2: at any time at most one connection in phase Waiting holds a given *)
(* passcode.                                                             *)
C2_OneWaitingHostPerPasscode ==
    \A c, d \in Conns :
        (c # d /\ WaitingHost(c) /\ WaitingHost(d))
            => m[c][1].passcode # m[d][1].passcode

(* C2, second half: the passcode of an accepted Create is in range and is *)
(* no key of waiting_matches when the entry is inserted.                  *)
C2_FreshPasscodeAtInsert ==
    \A c \in Conns :
        pc[c] = "create_insert"
            => /\ loc[c].m[1].passcode \in Passcodes
               /\ loc[c].m[1].passcode \notin DOMAIN matches

C3_WaitingHostHasKey ==
    \A c \in Conns :
        WaitingHost(c)
            => /\ m[c][1].passcode \in DOMAIN matches
               /\ IsHostOf(c, matches[m[c][1].passcode])

C4_PublicListedIffWaitingPublic ==
    \A c \in Conns :
        (WaitingHost(c) /\ m[c][1].passcode \in DOMAIN matches
                        /\ IsHostOf(c, matches[m[c][1].passcode]))
            => LET s == m[c][1] IN
               IF s.visibility = "Public"
               THEN /\ s.passcode \in DOMAIN public_matches
                    /\ public_matches[s.passcode] = WithoutVisibility(s)
               ELSE \/ s.passcode \notin DOMAIN public_matches
                    \/ public_matches[s.passcode].match_id # s.match_id

(* C5: every phase change follows Idle -> {Waiting}, Waiting -> {Idle,   *)
(* Playing}, Playing -> {Idle}; no connection moves from Idle to Playing. *)
PhaseGraph ==
    { <<"Idle", "Waiting">>, <<"Waiting", "Idle">>, <<"Waiting", "Playing">>,
      <<"Playing", "Idle">> }

C5_PhaseGraphNoIdleToPlaying ==
    [][\A c \in Conns :
          state'[c] # state[c] => <<state[c], state'[c]>> \in PhaseGraph]_vars

(* C5 as amended: the same graph, and Idle -> Playing for a joiner at the *)
(* end of its Join handler and for no other step.                         *)
C5_PhaseGraphWithJoin ==
    [][\A c \in Conns :
          state'[c] # state[c] =>
              \/ <<state[c], state'[c]>> \in PhaseGraph
              \/ /\ <<state[c], state'[c]>> = <<"Idle", "Playing">>
                 /\ pc[c] = "join_wait"]_vars

C5_Witness ==
    \E c, d \in Conns, k \in Chans :
        /\ state[c] = "Idle" /\ AtSelect(c) /\ sent[c] = <<S2COpponentLeft>>
        /\ state[d] = "Playing" /\ IsJoinerOf(d, k)

(* C6: the counter starts at 1 and is incremented once per accepted      *)
(* Create and by nothing else; the ids handed out are distinct and        *)
(* strictly increasing in the order they are assigned.                    *)
C6_MatchIdsStrictlyIncreasing ==
    /\ match_id = FirstMatchId + Len(assigned)
    /\ Len(assigned) = nchan - Cardinality({c \in Conns : pc[c] = "create_insert"})
    /\ \A i, j \in 1..Len(assigned) : i < j => assigned[i] < assigned[j]
    /\ \A c \in Conns :
          m[c] # <<>> => \E i \in 1..Len(assigned) : assigned[i] = m[c][1].match_id
    /\ \A c, d \in Conns, k, l \in Chans :
          (c # d /\ IsHostOf(c, k) /\ IsHostOf(d, l) /\ m[c] # <<>> /\ m[d] # <<>>)
              => m[c][1].match_id # m[d][1].match_id

C6_Witness ==
    /\ Len(assigned) = 2
    /\ \E c, d \in Conns :
          /\ c # d /\ WaitingHost(c) /\ WaitingHost(d)
          /\ m[c][1].visibility = "Private" /\ m[d][1].visibility = "Public"
    /\ \E c \in Conns : sent[c] = <<S2CCreateOrJoinFailed>>

(* C7: the history log never holds more than 13 entries; when a started  *)
(* match (a step that takes the next id) is inserted into a log of 13,    *)
(* the entry inserted earliest is removed and the new entry is kept.      *)
C7_HistoryCapEvictsOldest ==
    /\ [](Len(history) <= HistoryCap)
    /\ [][(Len(history) = HistoryCap /\ match_id' # match_id)
            => /\ Len(history') = HistoryCap
               /\ \A i \in 1..(HistoryCap - 1) : history'[i] = history[i + 1]
               /\ history'[HistoryCap].match_id \notin HistoryIds(history)
               /\ history'[HistoryCap].match_id = match_id]_vars

C7_Witness ==
    /\ Len(history) = HistoryCap
    /\ history[1].match_id > FirstMatchId

(* the host c and the joiner d of channel pair k are both Playing *)
Started(c, d, k) ==
    /\ IsHostOf(c, k) /\ state[c] = "Playing"
    /\ IsJoinerOf(d, k) /\ state[d] = "Playing"

(* C8: once a match with passcode P and id M has started, P refers to it  *)
(* in neither registry, and while both peers are Playing and M is not     *)
(* evicted, history[M].status is InProgress.                              *)
C8_StartedMatchLeftRegistries ==
    \A c, d \in Conns, k \in Chans :
        Started(c, d, k) =>
            LET s == m[c][1] IN
            /\ m[d][1].match_id = s.match_id
            /\ s.passcode \in DOMAIN matches => matches[s.passcode] # k
            /\ s.passcode \in DOMAIN public_matches
                   => public_matches[s.passcode].match_id # s.match_id
            /\ \A i \in 1..Len(history) :
                   history[i].match_id = s.match_id => history[i].status = "InProgress"
            /\ s.match_id \in HistoryIds(history) \/ Len(history) = HistoryCap

C8_Witness ==
    \E c, d \in Conns, k \in Chans :
        /\ Started(c, d, k)
        /\ m[c][1].visibility = "Public"
        /\ m[c][1].passcode \in DOMAIN matches
        /\ \E i \in 1..Len(history) :
               history[i].match_id = m[c][1].match_id /\ history[i].status = "InProgress"

(* the S2CMatchStart the host c and the joiner d of pair k were sent last *)
BothSentMatchStart(c, d, k) ==
    /\ Started(c, d, k)
    /\ Len(sent[c]) = 1 /\ sent[c][1].type = "S2CMatchStart"
    /\ Len(sent[d]) = 2 /\ sent[d][2].type = "S2CMatchStart"

StartFieldsAgree(c, h, j) ==
    /\ h.match_id = m[c][1].match_id /\ j.match_id = h.match_id
    /\ h.m.match_id = h.match_id /\ j.m.match_id = h.match_id
    /\ h.m.clock = m[c][1].clock /\ j.m.clock = h.m.clock
    /\ j.m.variant = h.m.variant /\ h.m.variant # "Random"
    /\ h.m.variant \in ConfigVariants
    /\ h.m.color # "Random" /\ j.m.color # "Random"

(* C9: the two S2CMatchStart of a started match carry the same match id,  *)
(* clock and variant, no Random, and opposite colours White and Black.    *)
C9_MatchStartOppositeColors ==
    \A c, d \in Conns, k \in Chans :
        BothSentMatchStart(c, d, k) =>
            LET h == sent[c][1].body[1]
                j == sent[d][2].body[1]
            IN  /\ StartFieldsAgree(c, h, j)
                /\ {h.m.color, j.m.color} = {"White", "Black"}

(* C9 as amended: as above for a host colour of Random, White or Black;   *)
(* for a host colour of None both clients are sent None.                  *)
C9_MatchStartOppositeUnlessNone ==
    \A c, d \in Conns, k \in Chans :
        BothSentMatchStart(c, d, k) =>
            LET h == sent[c][1].body[1]
                j == sent[d][2].body[1]
            IN  /\ StartFieldsAgree(c, h, j)
                /\ IF m[c][1].color = "None"
                   THEN h.m.color = "None" /\ j.m.color = "None"
                   ELSE /\ {h.m.color, j.m.color} = {"White", "Black"}
                        /\ m[c][1].color # "Random" => h.m.color = m[c][1].color

C9_Witness ==
    \E c, d \in Conns, k \in Chans :
        /\ BothSentMatchStart(c, d, k)
        /\ m[c][1].color = "Random" /\ m[c][1].variant = "Random"
        /\ sent[c][1].body[1].m.color = "Black"
        /\ sent[d][2].body[1].m.color = "White"

(* C10: a Join that removed an entry from waiting_matches ends with the   *)
(* joiner Playing, sent Success and then S2CMatchStart; it never ends     *)
(* with the entry consumed and no match started.                          *)
JoinPcs == {"join_public", "join_notify", "join_wait"}

C10_JoinAllOrNothing ==
    [][\A c \in Conns :
          (pc[c] \in JoinPcs /\ pc'[c] \notin JoinPcs) =>
              /\ pc'[c] = "select" /\ state'[c] = "Playing"
              /\ Len(sent'[c]) = 2
              /\ sent'[c][1].type = "S2CMatchCreateOrJoinResult" /\ sent'[c][1].ok
              /\ sent'[c][2].type = "S2CMatchStart"]_vars

(* c holds the joiner's receiver of channel pair k: in the Join handler's *)
(* local rx or, once the match started, in cs.rx                          *)
HoldsPeerRx(c, k) == loc[c].rx = <<PeerRx(k)>> \/ rx[c] = <<PeerRx(k)>>

(* C11: the removal from waiting_matches is atomic: of the connections    *)
(* that send Join for one waiting match exactly one obtains the host's    *)
(* rendezvous endpoint, the others are sent Failed and stay Idle; a host  *)
(* is never paired with two joiners.                                      *)
C11_OneJoinerPerMatch ==
    /\ [](\A c, d \in Conns, k \in Chans :
            (HoldsPeerRx(c, k) /\ HoldsPeerRx(d, k)) => c = d)
    /\ [][\A c \in Conns :
            (pc[c] = "select" /\ state[c] = "Idle" /\ pc'[c] = "join_public") =>
                LET p == loc'[c].passcode IN
                /\ p \in DOMAIN matches /\ p \notin DOMAIN matches'
                /\ loc'[c].rx = <<PeerRx(matches[p])>>
                /\ \A d \in Conns \ {c} : ~HoldsPeerRx(d, matches[p])]_vars

C11_Witness ==
    \E c, d, h \in Conns, k \in Chans :
        /\ c # d /\ IsHostOf(h, k) /\ state[h] = "Playing"
        /\ IsJoinerOf(d, k) /\ state[d] = "Playing"
        /\ AtSelect(c) /\ state[c] = "Idle" /\ m[c] = <<>>
        /\ Len(sent[c]) = 1 /\ sent[c][1].type = "S2CMatchCreateOrJoinResult"
        /\ ~sent[c][1].ok

(* C12: a Join with a passcode that is no key of waiting_matches is       *)
(* answered with exactly one S2CMatchCreateOrJoinResult::Failed; the      *)
(* connection stays open and Idle with no settings or channels bound, and *)
(* the registries, the history and the match_id counter are unchanged.    *)
C12_JoinOfMissingRepliesFailed ==
    [][\A c \in Conns :
          (/\ pc[c] = "select" /\ state[c] = "Idle"
           /\ pc'[c] = "select" /\ sent'[c] # sent[c]) =>
              /\ Len(sent'[c]) = 1
              /\ sent'[c][1].type = "S2CMatchCreateOrJoinResult"
              /\ ~sent'[c][1].ok /\ sent'[c][1].body = <<>>
              /\ state'[c] = "Idle"
              /\ m'[c] = <<>> /\ tx'[c] = <<>> /\ rx'[c] = <<>>
              /\ loc'[c] = NoLoc
              /\ UNCHANGED <<matches, public_matches, history, match_id,
                             chan, nchan, assigned>>]_vars

C12_Witness ==
    \E c, h \in Conns :
        /\ AtSelect(c) /\ state[c] = "Idle"
        /\ Len(sent[c]) = 1 /\ ~sent[c][1].ok
        /\ m[c] = <<>> /\ tx[c] = <<>> /\ rx[c] = <<>>
        /\ WaitingHost(h) /\ m[h][1].passcode \in DOMAIN matches
        /\ history = <<>>

(* C13: a C2SMatchCancel handled by a host in Waiting replies Success,    *)
(* leaves the connection Idle with settings and both channel ends         *)
(* unbound, leaves the host's passcode in neither registry, and removes   *)
(* no waiting_matches or public_matches entry of another host's match.    *)
C13_CancelRemovesOnlyOwnEntry ==
    [][\A c \in Conns :
          /\ (pc[c] = "select" /\ pc'[c] = "cancel_matches") =>
                 \A p \in DOMAIN public_matches \ DOMAIN public_matches' :
                     public_matches[p].match_id = m[c][1].match_id
          /\ (pc[c] = "cancel_matches" /\ pc'[c] = "select") =>
                 /\ \A p \in DOMAIN matches \ DOMAIN matches' :
                        IsHostOf(c, matches[p])
                 /\ m[c][1].passcode \notin DOMAIN matches'
                 /\ m[c][1].passcode \notin DOMAIN public_matches'
                 /\ sent'[c] = <<S2CCancelSuccess>>
                 /\ state'[c] = "Idle"
                 /\ m'[c] = <<>> /\ tx'[c] = <<>> /\ rx'[c] = <<>>]_vars

(* a step of c that leaves the registries, the history and the counter    *)
(* alone and ends c's task in phase Idle with nothing sent                *)
RejectedFromIdle(c) ==
    /\ UNCHANGED <<matches, public_matches, history, match_id, assigned>>
    /\ state[c] = "Idle" /\ state'[c] = "Idle"
    /\ sent'[c] = <<>> /\ m'[c] = <<>>

(* C20: a Create is rejected when its variant is not allowed, when        *)
(* waiting_matches holds limit_concurrent_match entries or more, or when  *)
(* it is Public and public_matches holds limit_public_waiting entries or  *)
(* more; a rejected Create sends no Success, closes the connection from   *)
(* Idle and changes no registry, history entry or match id.               *)
C20_CreateRejections ==
    [][\A c \in Conns :
          /\ (pc[c] = "select" /\ pc'[c] = "create_lock") =>
                 /\ loc'[c].m[1].variant \in ConfigVariants
                 /\ Cardinality(DOMAIN matches) < LimitConcurrentMatch
          /\ (pc[c] = "create_lock" /\ pc'[c] \in {"create_insert", "create_spin"}) =>
                 ~(/\ loc[c].m[1].visibility = "Public"
                   /\ Cardinality(DOMAIN public_matches) >= LimitPublicWaiting)
          /\ (pc[c] = "select" /\ pc'[c] = ErrInvalidData /\ state[c] = "Idle") =>
                 RejectedFromIdle(c)
          /\ (pc[c] = "select" /\ pc'[c] = ErrLimit) =>
                 /\ Cardinality(DOMAIN matches) >= LimitConcurrentMatch
                 /\ RejectedFromIdle(c)
          /\ (pc[c] = "create_lock" /\ pc'[c] = ErrLimit) =>
                 /\ loc[c].m[1].visibility = "Public"
                 /\ Cardinality(DOMAIN public_matches) >= LimitPublicWaiting
                 /\ RejectedFromIdle(c)
          /\ (pc[c] = "create_lock" /\ pc'[c] \in EndPcs) => pc'[c] = ErrLimit]_vars

C20_Witness ==
    \E c, d, h \in Conns :
        /\ pc[c] = ErrLimit /\ pc[d] = ErrInvalidData
        /\ state[c] = "Idle" /\ state[d] = "Idle"
        /\ WaitingHost(h) /\ m[h][1].passcode \in DOMAIN matches
        /\ match_id = FirstMatchId + 1

(* C18: decoding a well-formed action payload and encoding the result     *)
(* yields the same 13 words in the same wire positions; src_y/src_x and   *)
(* dst_y/dst_x are not swapped.                                           *)
C18_ActionRoundTrip ==
    \A c \in Conns : s2c[c] # <<>> => s2c[c] = c2s[c]

(* ------------------------------------------------------------------ *)
(* Properties of a started match                                      *)
(* ------------------------------------------------------------------ *)

(* the main loop polls its rendezvous channel whenever it is at select! *)
SpecPlayFair ==
    SpecPlay /\ \A c \in Peers : WF_vars(PlayingRecv(c) \/ PlayingRecvClosed(c))

Peer(c) == 3 - c

(* c has handled its own client's C2SForfeit and left the match *)
HasForfeited(c) ==
    /\ state[c] = "Idle" /\ pc[c] = "select"
    /\ m[c] = <<>> /\ sent[c] = <<>>

(* c has been told that the opponent left and is Idle with its socket open *)
SentOpponentLeft(c) ==
    /\ state[c] = "Idle" /\ pc[c] = "select"
    /\ sent[c] = <<S2COpponentLeft>>

(* C14: a C2SForfeit handled while Playing returns the forfeiter to Idle  *)
(* with its socket open and marks history[M] Completed if present; the    *)
(* peer's client is then sent S2COpponentLeft and the peer returns to     *)
(* Idle, in every interleaving of the two connections.                    *)
C14_ForfeitEndsMatchForBoth ==
    /\ [][\A c \in Peers :
            PlayingForfeit(c) =>
                /\ state'[c] = "Idle" /\ pc'[c] = "select"
                /\ \A i \in 1..Len(history') :
                       history'[i].match_id = m[c][1].match_id
                           => history'[i].status = "Completed"]_vars
    /\ \A c \in Peers :
           [](HasForfeited(c) /\ state[Peer(c)] = "Playing"
                 => <>SentOpponentLeft(Peer(c)))

(* the other peer has dropped its receiver: nothing c sends can arrive *)
PeerGone(c) ==
    /\ state[c] = "Playing" /\ pc[c] = "select"
    /\ ~CanSend(chan, tx[c][1])

(* C15: once the peer has left, the survivor's next event, a forfeit or   *)
(* an end of channel on the rendezvous channel or its own client's action *)
(* or forfeit, sends it S2COpponentLeft and moves it to Idle with the     *)
(* connection open.                                                       *)
C15_SurvivorIsToldOpponentLeft ==
    [][\A c \in Peers :
          /\ PeerGone(c)
          /\ \/ PlayingRecvClosed(c)
             \/ /\ CanRecv(chan, rx[c][1])
                /\ Head(Queue(chan, rx[c][1])).type = "InternalForfeit"
                /\ PlayingRecv(c)
             \/ PlayingForfeit(c)
             \/ \E w \in ActionInputs(c), t \in 1..MaxTime :
                    /\ UnpackAction(w).action_type = ActionTypeMove
                    /\ PlayingAction(c, w, t)
          => SentOpponentLeft(c)']_vars

(* the sending end of connection c in the started match *)
OutEnd(c) == IF c = 1 THEN HostTx(1) ELSE PeerTx(1)

IsPrefix(a, b) == Len(a) <= Len(b) /\ SubSeq(b, 1, Len(a)) = a

(* the frames among fs that the client of c wrote (word 4 names it) *)
FromConn(fs, c) == SelectSeq(fs, LAMBDA w : w[4] = c)

(* actions of c: echoed to c's client, forwarded to the peer's client, *)
(* still queued on the rendezvous channel                              *)
Echoes(c) == FromConn(s2c[c], c)
Relayed(c) == FromConn(s2c[Peer(c)], c)
Pending(c) ==
    LET q == SelectSeq(Queue(chan, OutEnd(c)), LAMBDA x : x.type = "InternalAction")
    IN  [i \in 1..Len(q) |-> PackAction(q[i].body[1])]

(* C16 as stated: every accepted action is sent exactly once to the       *)
(* sender and exactly once to the peer's client; once nothing is queued,  *)
(* the peer's client has been sent every action echoed to the sender.     *)
C16_AcceptedActionReachesPeer ==
    \A c \in Peers : Pending(c) = <<>> => Relayed(c) = Echoes(c)

(* C16: an accepted action is echoed once to the sender and queued once   *)
(* for the peer, with the same body and message_id overwritten by the     *)
(* server; phases, registries and history are unchanged. The peer's       *)
(* client is sent each action at most once, in the echoed form, and       *)
(* exactly once while the peer holds its receiver.                        *)
C16_ActionEchoedAndRelayedOnce ==
    /\ [](\A c \in Peers :
             /\ IsPrefix(Relayed(c), Echoes(c))
             /\ CanSend(chan, OutEnd(c)) => Echoes(c) = Relayed(c) \o Pending(c))
    /\ [][\A c \in Peers :
            (c2s'[c] # c2s[c] /\ pc'[c] = "select") =>
                LET w == c2s'[c][Len(c2s'[c])]
                    q == Queue(chan', OutEnd(c))
                    b == q[Len(q)].body[1]
                IN  /\ q = Append(Queue(chan, OutEnd(c)), MsgAction(b))
                    /\ b = [UnpackAction(w) EXCEPT !.message_id = b.message_id]
                    /\ b.message_id \in LastTime..MaxTime
                    /\ s2c'[c] = Append(s2c[c], PackAction(b))
                    /\ s2c'[Peer(c)] = s2c[Peer(c)]
                    /\ UNCHANGED <<state, m, matches, public_matches, history,
                                   match_id>>]_vars
    /\ [][\A c \in Peers :
            (s2c'[c] # s2c[c] /\ c2s'[c] = c2s[c]) =>
                LET q == Queue(chan, OutEnd(Peer(c)))
                IN  /\ q # <<>> /\ q[1].type = "InternalAction"
                    /\ Queue(chan', OutEnd(Peer(c))) = Tail(q)
                    /\ s2c'[c] = Append(s2c[c], PackAction(q[1].body[1]))
                    /\ UNCHANGED <<state, m, matches, public_matches, history,
                                   match_id>>]_vars

C16_Witness ==
    \E c \in Peers :
        /\ Len(Echoes(c)) = MaxActions
        /\ Relayed(c) = Echoes(c)
        /\ state[1] = "Playing" /\ state[2] = "Playing"

(* C19: with ban_reset_puzzle enabled a ResetPuzzle action is neither     *)
(* relayed nor echoed and its sender is closed with InvalidData; with the *)
(* ban disabled it is relayed and echoed like any other action.           *)
C19_BanResetPuzzle ==
    [][\A c \in Peers :
          (c2s'[c] # c2s[c]
             /\ c2s'[c][Len(c2s'[c])][1] = ActionTypeResetPuzzle
             /\ CanSend(chan, OutEnd(c)))
          => IF config.ban_reset_puzzle
             THEN /\ pc'[c] = ErrInvalidData
                  /\ s2c' = s2c
                  /\ Queue(chan', OutEnd(c)) = Queue(chan, OutEnd(c))
             ELSE /\ pc'[c] = "select"
                  /\ Len(s2c'[c]) = Len(s2c[c]) + 1
                  /\ Len(Queue(chan', OutEnd(c))) = Len(Queue(chan, OutEnd(c))) + 1]_vars

(* ------------------------------------------------------------------ *)
(* A burst of actions from one peer while the other is slow to poll   *)
(* its rendezvous channel                                             *)
(* ------------------------------------------------------------------ *)

(* actions connection 1 relays in one run: one more than the channel holds *)
MaxBurst == 17

InitFifo ==
    /\ NoSignal
    /\ MatchStarted
    /\ config = DefaultConfig
    /\ c2s = [c \in Conns |-> <<>>]
    /\ s2c = [c \in Conns |-> <<>>]

NextFifo ==
    \/ /\ Len(c2s[1]) < MaxBurst
       /\ \E w \in ActionInputs(1) :
              /\ w[1] = ActionTypeMove
              /\ PlayingAction(1, w, LastTime)
    \/ PlayingRecv(2)
    \/ PlayingRecvLagged(2)
    \/ PlayingRecvClosed(1)

SpecFifo == InitFifo /\ [][NextFifo]_vars

(* C17: the peer's client receives exactly the sender's actions in the    *)
(* order they were accepted, none lost, duplicated or reordered, however  *)
(* many are queued on the rendezvous channel: what was echoed to the      *)
(* sender is what the peer's client was sent followed by what is queued,  *)
(* and the receiving peer keeps running.                                  *)
C17_RelayIsFifo ==
    /\ pc[2] = "select"
    /\ state[2] = "Playing" => Echoes(1) = Relayed(1) \o Pending(1)

(* ------------------------------------------------------------------ *)
(* Policy, cleanup and shutdown                                       *)
(* ------------------------------------------------------------------ *)

Banned(visibility) ==
    \/ config.ban_public_match /\ visibility = "Public"
    \/ config.ban_private_match /\ visibility = "Private"

(* C21: with ban_public_match enabled every Public Create is rejected and *)
(* with ban_private_match enabled every Private Create is rejected: no    *)
(* connection becomes the host of a match of a banned visibility, no      *)
(* match id is assigned to it and no registry entry is inserted for it.   *)
C21_BannedVisibilityRejected ==
    /\ \A c \in Conns : m[c] # <<>> => ~Banned(m[c][1].visibility)
    /\ (config.ban_public_match /\ config.ban_private_match)
          => /\ matches = EmptyMap /\ public_matches = EmptyMap
             /\ match_id = FirstMatchId

(* the step on which the task of c ends: cleanup done, cs dropped *)
Terminates(c) == pc[c] \notin EndPcs /\ pc'[c] \in EndPcs

(* after a task that was Waiting has terminated, its passcode is in *)
(* neither registry                                                 *)
WaitingExitUnlisted ==
    \A c \in Conns :
        (Terminates(c) /\ state'[c] = "Waiting") =>
            /\ m[c][1].passcode \notin DOMAIN matches'
            /\ m[c][1].passcode \notin DOMAIN public_matches'

(* after a task that was Playing has terminated, the history entry of its *)
(* match, if still present, is Completed                                  *)
PlayingExitCompleted ==
    \A c \in Conns :
        (Terminates(c) /\ state'[c] = "Playing") =>
            \A i \in 1..Len(history') :
                history'[i].match_id = m[c][1].match_id
                    => history'[i].status = "Completed"

(* the cleanup of c takes out of the registries only the entries of c's *)
(* own match and alters no history entry of another match               *)
CleanupTouchesOwnOnly ==
    \A c \in Conns :
        (Terminates(c) \/ (pc[c] = "select" /\ pc'[c] = "cleanup_matches")) =>
            /\ \A q \in DOMAIN matches \ DOMAIN matches' :
                   tx[c] # <<>> /\ matches[q] = tx[c][1].ch
            /\ \A q \in DOMAIN public_matches \ DOMAIN public_matches' :
                   m[c] # <<>> /\ public_matches[q].match_id = m[c][1].match_id
            /\ \A i \in 1..Len(history) :
                   history'[i] # history[i]
                       => m[c] # <<>> /\ history[i].match_id = m[c][1].match_id

(* C22: cleanup runs on every exit path: a task that was Waiting leaves   *)
(* its passcode in neither registry, a task that was Playing leaves the   *)
(* history entry of its match Completed, and the cleanup of a connection  *)
(* never removes or alters an entry of another connection's match.        *)
C22_CleanupOnEveryExit ==
    [][WaitingExitUnlisted /\ PlayingExitCompleted /\ CleanupTouchesOwnOnly]_vars

(* no connection task is running and both registries are empty *)
AllStopped ==
    /\ \A c \in Conns : pc[c] \in EndPcs
    /\ matches = EmptyMap
    /\ public_matches = EmptyMap

HasListReply(c) == sent[c] # <<>> /\ sent[c][1].type = "S2CMatchList"
ListBody(c) == sent[c][1].body[1]

(* the listed entries a request of a host with settings own may show *)
Listable(own) ==
    {public_matches[p] : p \in
        {q \in DOMAIN public_matches :
            own = <<>> \/ public_matches[q].match_id # own[1].match_id}}

(* C24: in every S2CMatchList reply public_count <= 13 and history_count  *)
(* <= 13; the public slots are distinct entries that were in              *)
(* public_matches when the request was served; a host in Waiting never    *)
(* finds its own match among them, and its own entry does not count       *)
(* toward public_count.                                                   *)
C24_ListIsCappedAndSkipsOwn ==
    /\ [](\A c \in Conns : HasListReply(c) =>
             /\ ListBody(c).public_matches_count <= ListSlots
             /\ ListBody(c).server_history_matches_count <= ListSlots
             /\ Len(ListBody(c).public_matches) = ListBody(c).public_matches_count
             /\ \A k \in 1..Len(ListBody(c).public_matches) :
                    ListBody(c).host # <<>> =>
                        ListBody(c).public_matches[k].match_id
                            # ListBody(c).host[1].match_id)
    /\ [][\A c \in Conns :
            (pc[c] = "list_public" /\ pc'[c] = "list_history") =>
                LET l == loc'[c].list
                    own == IF state[c] = "Waiting" THEN m[c] ELSE <<>>
                IN  /\ \A k \in 1..Len(l) : l[k] \in Listable(own)
                    /\ \A j, k \in 1..Len(l) : l[j] = l[k] => j = k
                    /\ Len(l) = IF Cardinality(Listable(own)) > ListSlots
                                THEN ListSlots ELSE Cardinality(Listable(own))]_vars

(* a host was sent 13 public matches out of 14 listed, its own left out *)
C24_Witness ==
    /\ HasListReply(1)
    /\ state[1] = "Waiting"
    /\ ListBody(1).host = m[1]
    /\ ListBody(1).public_matches_count = ListSlots
    /\ Cardinality(DOMAIN public_matches) = ListSlots + 1
    /\ m[1][1].passcode \in DOMAIN public_matches

(* C25: for a history log of n <= 13 entries the S2CMatchList reply has   *)
(* history_count = n and its history slot k (from 0) holds the entry      *)
(* inserted (k+1)-th most recently, newest first, each with the status    *)
(* the entry holds at that moment.                                        *)
C25_HistoryNewestFirst ==
    [][\A c \in Conns :
          (pc[c] = "list_history" /\ pc'[c] = "select") =>
              LET b == sent'[c][1].body[1]
                  n == Len(history)
              IN  /\ b.server_history_matches_count = n
                  /\ \A k \in 0..(n - 1) :
                         b.server_history_matches[k + 1] = HistorySlot(history[n - k])]_vars

(* a reply with all 13 history slots filled, the newest and the oldest *)
(* entry different                                                     *)
C25_Witness ==
    \E c \in Conns :
        /\ HasListReply(c)
        /\ ListBody(c).server_history_matches_count = HistoryCap
        /\ Len(history) = HistoryCap
        /\ ListBody(c).server_history_matches[1] = HistorySlot(history[HistoryCap])
        /\ ListBody(c).server_history_matches[1]
              # ListBody(c).server_history_matches[HistoryCap]

(* C26: in Idle a C2SMatchCancel is answered with exactly one             *)
(* S2CMatchCancelResult::Failed and a C2SForfeit with nothing; both leave *)
(* the connection open and Idle and the registries, the history and the   *)
(* match_id counter unchanged. (The Failed reply of a Join is the only    *)
(* other answer an Idle connection gives in place.)                       *)
C26_IdleCancelAndForfeit ==
    [][\A c \in Conns :
          (state[c] = "Idle" /\ pc[c] = "select" /\ pc'[c] = "select"
             /\ sent'[c] # sent[c] /\ sent'[c] # <<S2CCreateOrJoinFailed>>)
          => /\ sent'[c] \in {<<S2CCancelFailed>>, <<>>}
             /\ state'[c] = "Idle"
             /\ m'[c] = <<>> /\ tx'[c] = <<>> /\ rx'[c] = <<>>
             /\ UNCHANGED <<matches, public_matches, history, match_id, chan,
                            assigned>>]_vars

(* an Idle connection was answered Failed while another one is Waiting *)
C26_Witness ==
    \E c, h \in Conns :
        /\ state[c] = "Idle" /\ pc[c] = "select"
        /\ sent[c] = <<S2CCancelFailed>>
        /\ WaitingHost(h) /\ m[h][1].passcode \in DOMAIN matches

(* cs.m is Some iff the phase is not Idle; cs.tx and cs.rx are both Some *)
(* iff the phase is not Idle                                             *)
BoundIffNotIdle(phase, settings, peer_tx, peer_rx) ==
    /\ (settings # <<>>) <=> (phase # "Idle")
    /\ (peer_tx # <<>> /\ peer_rx # <<>>) <=> (phase # "Idle")

(* C27: whenever a connection waits for its next event, and when it      *)
(* leaves on any exit path, its settings are bound iff its phase is not  *)
(* Idle and its two endpoints are both bound iff its phase is not Idle;  *)
(* both endpoints are bound whenever the phase is Playing.               *)
C27_BindingsFollowPhase ==
    /\ [](\A c \in Conns :
             pc[c] = "select" => BoundIffNotIdle(state[c], m[c], tx[c], rx[c]))
    /\ [][\A c \in Conns :
            (Terminates(c) \/ (pc[c] = "select" /\ pc'[c] = "cleanup_matches"))
                => BoundIffNotIdle(state'[c], m[c], tx[c], rx[c])]_vars

(* a joiner is Playing with both endpoints, another connection left from *)
(* inside the Join handler                                               *)
C27_Witness ==
    \E c, d \in Conns :
        /\ pc[c] = "select" /\ state[c] = "Playing"
        /\ IsJoinerOf(c, 1) /\ rx[c] = <<PeerRx(1)>> /\ m[c] # <<>>
        /\ pc[d] = ErrClosed /\ state[d] = "Idle"

(* the step is taken by connection c *)
Acts(c) ==
    <<pc[c], loc[c], sent[c], state[c], m[c], tx[c], rx[c]>>
        # <<pc'[c], loc'[c], sent'[c], state'[c], m'[c], tx'[c], rx'[c]>>

(* at most two registry guards at a time, and the history lock only alone *)
AtMostTwoLocks ==
    \A c \in Conns :
        /\ Len(Held(c)) <= 2
        /\ (Acts(c) /\ history' # history) =>
               /\ Held(c) = <<>>
               /\ matches' = matches /\ public_matches' = public_matches

NextIs(e, type) == CanRecv(chan, e) => Head(Queue(chan, e)).type = type

(* C29: the handshake is InternalInitialize, InternalJoin,                *)
(* InternalMatchStart: the first message a joiner takes from the endpoint *)
(* it removed is InternalInitialize and the second, if any, is            *)
(* InternalMatchStart, so neither unreachable branch is reached; a        *)
(* Waiting host receives no rendezvous message but InternalJoin, and that *)
(* at most once for each match it created.                                *)
C29_HandshakeOrder ==
    /\ [](\A c \in Conns :
             /\ pc[c] # "panicked"
             /\ pc[c] = "join_notify" => NextIs(loc[c].rx[1], "InternalInitialize")
             /\ pc[c] = "join_wait" => NextIs(loc[c].rx[1], "InternalMatchStart")
             /\ (state[c] = "Waiting" /\ rx[c] # <<>>) =>
                    Queue(chan, rx[c][1]) \in {<<>>, <<Msg("InternalJoin")>>})
    /\ [][\A c \in Conns :
            (state[c] # "Waiting" /\ state'[c] = "Waiting") =>
                /\ pc[c] = "create_insert"
                /\ rx'[c] = <<HostRx(nchan)>>
                /\ Queue(chan', rx'[c][1]) = <<>>]_vars

(* both steps of a handshake are done: the joiner was sent the Success    *)
(* and the start of the match and nothing is left on either channel       *)
C29_Witness ==
    \E c, d \in Conns :
        /\ IsHostOf(d, 1) /\ state[d] = "Playing"
        /\ IsJoinerOf(c, 1) /\ state[c] = "Playing"
        /\ Len(sent[c]) = 2 /\ sent[c][2].type = "S2CMatchStart"
        /\ Queue(chan, HostRx(1)) = <<>> /\ Queue(chan, PeerRx(1)) = <<>>

(* C30: in every reachable state, under every interleaving of concurrent  *)
(* Creates, waiting_matches holds at most limit_concurrent_match entries  *)
(* and public_matches at most limit_public_waiting entries.               *)
C30_RegistriesWithinLimits ==
    /\ Cardinality(DOMAIN matches) <= LimitConcurrentMatch
    /\ Cardinality(DOMAIN public_matches) <= LimitPublicWaiting

(* C31: serving a C2SMatchListRequest never indexes outside the 13        *)
(* history slots and never fails, also when a history entry is inserted   *)
(* between the read of the history length and the loop over the history:  *)
(* the request is answered, and the reply's history_count is the number   *)
(* of history slots filled.                                               *)
C31_ListSurvivesHistoryInsert ==
    [][\A c \in Conns :
          (pc[c] = "list_history" /\ pc'[c] # "list_history") =>
              /\ pc'[c] = "select"
              /\ sent'[c] # <<>> /\ sent'[c][1].type = "S2CMatchList"
              /\ sent'[c][1].body[1].server_history_matches_count = Len(history)]_vars

(* ------------------------------------------------------------------ *)
(* The passcode loop, one draw at a time                               *)
(* ------------------------------------------------------------------ *)

(* Idle, Create: public_matches.write(), the public cap, exceptions.lock() *)
(* and the first gen_range of the loop                                     *)
CreateDraw(c) ==
    /\ pc[c] = "create_lock"
    /\ ~PublicLocked /\ ~MatchesLocked
    /\ LET s == loc[c].m[1] IN
       IF s.visibility = "Public"
          /\ Cardinality(DOMAIN public_matches) >= LimitPublicWaiting
       THEN FailIdle(c, chan, ErrLimit)
       ELSE \E p \in Passcodes :
            /\ loc' = [loc EXCEPT ![c].passcode = p]
            /\ pc' = [pc EXCEPT ![c] = "create_spin"]
            /\ UNCHANGED <<chan, tx, rx, m, sent, state, matches, public_matches,
                           history>>
    /\ UNCHANGED <<match_id, nchan, assigned>>
    /\ UNCHANGED iovars

(* mutant: a generator that returns 0 at every turn *)
PasscodeLoopConstant(c) ==
    /\ pc[c] = "create_spin"
    /\ LET s == loc[c].m[1]
           p == loc[c].passcode
       IN  IF p \notin DOMAIN matches
           THEN /\ nchan' = nchan + 1
                /\ chan' = [chan EXCEPT ![nchan + 1] = NewChan]
                /\ tx' = [tx EXCEPT ![c] = <<HostTx(nchan + 1)>>]
                /\ rx' = [rx EXCEPT ![c] = <<HostRx(nchan + 1)>>]
                /\ loc' = [loc EXCEPT ![c].m = <<[s EXCEPT !.passcode = p]>>,
                                      ![c].passcode = -1]
                /\ pc' = [pc EXCEPT ![c] = "create_insert"]
           ELSE /\ loc' = [loc EXCEPT ![c].passcode = 0]
                /\ UNCHANGED <<pc, chan, nchan, tx, rx>>
    /\ UNCHANGED <<m, sent, state, matches, public_matches, history>>
    /\ UNCHANGED <<match_id, assigned>>
    /\ UNCHANGED iovars

(* one turn of the loop under the exceptions guard: the passcode drawn is  *)
(* returned when it is no key of matches (the channels are then created    *)
(* and InternalInitialize sent), else gen_range draws again                *)
PasscodeLoop(c) ==
    /\ pc[c] = "create_spin"
    /\ LET s == loc[c].m[1]
           p == loc[c].passcode
       IN  IF p \notin DOMAIN matches
           THEN /\ nchan' = nchan + 1
                /\ chan' = [chan EXCEPT ![nchan + 1] = NewChan]
                /\ tx' = [tx EXCEPT ![c] = <<HostTx(nchan + 1)>>]
                /\ rx' = [rx EXCEPT ![c] = <<HostRx(nchan + 1)>>]
                /\ loc' = [loc EXCEPT ![c].m = <<[s EXCEPT !.passcode = p]>>,
                                      ![c].passcode = -1]
                /\ pc' = [pc EXCEPT ![c] = "create_insert"]
           ELSE /\ \E q \in Passcodes : loc' = [loc EXCEPT ![c].passcode = q]
                /\ UNCHANGED <<pc, chan, nchan, tx, rx>>
    /\ UNCHANGED <<m, sent, state, matches, public_matches, history>>
    /\ UNCHANGED <<match_id, assigned>>
    /\ UNCHANGED iovars

(* every passcode is a key of matches *)
AllPasscodesWaiting == Passcodes \subseteq DOMAIN matches

(* the settings of the Create of connection c in the runs of the loop *)
PassSettings(c) ==
    [color |-> "White", clock |-> "Long", variant |-> "Standard",
     visibility |-> IF c = 1 THEN "Public" ELSE "Private"]

(* cs.m of connection c once its Create is done, c the c-th to insert *)
PassHost(c) ==
    [UnpackCreate(PassSettings(c)) EXCEPT
        !.passcode = c - 1, !.match_id = FirstMatchId + c - 1]

(* the hosts that wait, one on each passcode, and the connection whose *)
(* Create is in the loop                                              *)
PassHosts == 1..(PasscodeMax + 1)
PassLast == NConn

(* a new server, or the server after Creates have passed the length check *)
(* together: a host waits on each passcode and one more Create is in the  *)
(* loop                                                                   *)
InitPass ==
    /\ NoSignal
    /\ config = DefaultConfig
    /\ c2s = [c \in Conns |-> <<>>]
    /\ s2c = [c \in Conns |-> <<>>]
    /\ \/ InitServer
       \/ /\ match_id = FirstMatchId + PasscodeMax + 1
          /\ matches = [p \in Passcodes |-> p + 1]
          /\ public_matches =
                [p \in {0} |-> WithoutVisibility(PassHost(1))]
          /\ history = <<>>
          /\ chan = [k \in Chans |-> IF k \in PassHosts THEN NewChan ELSE DeadChan]
          /\ nchan = PasscodeMax + 1
          /\ state = [c \in Conns |-> IF c \in PassHosts THEN "Waiting" ELSE "Idle"]
          /\ m = [c \in Conns |->
                   IF c \in PassHosts THEN <<PassHost(c)>> ELSE <<>>]
          /\ tx = [c \in Conns |-> IF c \in PassHosts THEN <<HostTx(c)>> ELSE <<>>]
          /\ rx = [c \in Conns |-> IF c \in PassHosts THEN <<HostRx(c)>> ELSE <<>>]
          /\ pc = [c \in Conns |-> IF c = PassLast THEN "create_spin" ELSE "select"]
          /\ \E p \in Passcodes :
                loc = [c \in Conns |->
                         IF c = PassLast
                         THEN [NoLoc EXCEPT !.m = <<UnpackCreate(PassSettings(c))>>,
                                            !.passcode = p]
                         ELSE NoLoc]
          /\ sent = [c \in Conns |-> <<>>]
          /\ assigned = [i \in PassHosts |-> FirstMatchId + i - 1]

NextPass ==
    \E c \in Conns :
        \/ /\ nchan + Cardinality({d \in Conns : pc[d] = "create_spin"}) < MaxMatch
           /\ CreateCheck(c, PassSettings(c))
        \/ CreateDraw(c)
        \/ PasscodeLoop(c)
        \/ CreateInsert(c)
        \/ \E p \in Passcodes : JoinRemove(c, p)
        \/ JoinPublic(c)
        \/ JoinNotify(c)
        \/ JoinWait(c)
        \/ WaitingCancel(c)
        \/ CancelMatches(c)
        \/ WaitingRecv(c)
        \/ WaitingRecvClosed(c)
        \/ PlayingRecvClosed(c)
        \/ LoopExit(c)
        \/ CleanupMatches(c)

(* a handler that can take its next step is scheduled (the locks are fair, *)
(* a queued rendezvous message is an arm of select! that stays ready), and *)
(* the generator does not avoid the free passcodes for ever                *)
FairPass ==
    \A c \in Conns :
        /\ WF_vars(CreateDraw(c) \/ CreateInsert(c) \/ JoinPublic(c) \/ JoinNotify(c)
                      \/ JoinWait(c) \/ CancelMatches(c) \/ CleanupMatches(c)
                      \/ WaitingRecv(c) \/ WaitingRecvClosed(c)
                      \/ PlayingRecvClosed(c))
        /\ WF_vars(PasscodeLoop(c)
                      /\ (pc'[c] = "create_insert"
                             \/ loc'[c].passcode \notin DOMAIN matches))

SpecPass == InitPass /\ [][NextPass]_vars /\ FairPass

(* the task is inside a handler or its cleanup: it waits for a registry *)
(* lock, for a rendezvous message, or runs the passcode loop            *)
InHandler(c) == pc[c] \notin ({"select"} \cup EndPcs)

(* a joiner leaves its second recv() with the match started or with the *)
(* channel closed                                                       *)
JoinAnswered(c) == state[c] = "Playing" \/ pc[c] = ErrClosed

(* a Create runs the loop while every passcode is a key of matches: it  *)
(* holds both guards and no entry can be removed                        *)
PasscodesExhausted ==
    AllPasscodesWaiting /\ \E d \in Conns : pc[d] = "create_spin"

(* C32 as stated: the server is deadlock-free, in no reachable state is a *)
(* task blocked for ever on a registry lock or on a rendezvous channel;   *)
(* a joiner that waits for InternalMatchStart eventually receives it or   *)
(* sees the channel closed; the passcode loop ends whenever fewer         *)
(* passcodes are waiting than exist.                                      *)
C32_NoTaskBlockedForever ==
    \A c \in Conns :
        /\ InHandler(c) ~> ~InHandler(c)
        /\ (pc[c] = "join_wait") ~> JoinAnswered(c)
        /\ (pc[c] = "create_spin" /\ ~AllPasscodesWaiting) ~> (pc[c] = "create_insert")

(* C32, amended: as long as fewer passcodes are waiting than exist no     *)
(* task is blocked for ever on a registry lock or on a rendezvous         *)
(* channel, a joiner that waits for InternalMatchStart eventually         *)
(* receives it or sees the channel closed, and the passcode loop ends;    *)
(* a task stays blocked only once a Create runs the loop with every       *)
(* passcode waiting.                                                      *)
C32_BlockedOnlyWhenPasscodesExhausted ==
    \A c \in Conns :
        /\ InHandler(c) ~> (~InHandler(c) \/ PasscodesExhausted)
        /\ (pc[c] = "join_wait") ~> (JoinAnswered(c) \/ PasscodesExhausted)
        /\ (pc[c] = "create_spin" /\ ~AllPasscodesWaiting) ~> (pc[c] = "create_insert")

(* the loop has drawn a waiting passcode while another is free, and a task *)
(* waits for a guard the loop holds                                        *)
C32_Witness ==
    \E c, d \in Conns :
        /\ pc[c] = "create_spin"
        /\ loc[c].passcode \in DOMAIN matches
        /\ ~AllPasscodesWaiting
        /\ pc[d] \in {"join_public", "cancel_matches", "cleanup_matches"}

(* ------------------------------------------------------------------ *)
(* A started match whose two clients also ask for the match list       *)
(* ------------------------------------------------------------------ *)

InitPoll ==
    /\ NoSignal
    /\ MatchStarted
    /\ config = DefaultConfig
    /\ c2s = [c \in Conns |-> <<>>]
    /\ s2c = [c \in Conns |-> <<>>]

NextPoll ==
    \/ ListStart
    \/ \E c \in Peers :
        \/ ListCount(c)
        \/ ListPublic(c)
        \/ ListHistory(c)
        \/ PlayingForfeit(c)
        \/ PlayingRecv(c)
        \/ PlayingRecvClosed(c)
        \/ LoopExit(c)

SpecPoll == InitPoll /\ [][NextPoll]_vars

(* a connection whose task runs is Playing in the match with this id *)
StillPlaying(id) ==
    \E c \in Conns :
        /\ pc[c] \notin EndPcs /\ state[c] = "Playing"
        /\ m[c] # <<>> /\ m[c][1].match_id = id

(* the match was created by one of the connections of Conns, with a   *)
(* channel pair of its own; the matches of ListStart are played by     *)
(* connections that are not among them                                 *)
HostedHere(id) == id < FirstMatchId + nchan

(* C33: a history entry is InProgress only while at least one connection *)
(* of its match is still Playing: once the host and the joiner of match  *)
(* M have both left Playing, in any order and in any way, history[M], if *)
(* present, is Completed, and it never returns to InProgress.            *)
C33_InProgressOnlyWhilePlaying ==
    /\ [](\A i \in 1..Len(history) :
             (HostedHere(history[i].match_id) /\ history[i].status = "InProgress")
                 => StillPlaying(history[i].match_id))
    /\ [][\A i \in 1..Len(history), j \in 1..Len(history') :
            (history[i].status = "Completed"
                /\ history'[j].match_id = history[i].match_id)
                => history'[j].status = "Completed"]_vars

(* C34: the visibility a joiner resolves, reports in its Success and      *)
(* stores in the history entry is the visibility its host chose at        *)
(* Create, also when a match is created with the same passcode between    *)
(* the joiner's removal from waiting_matches and its removal from         *)
(* public_matches; and that removal takes away no other match's listing.  *)
C34_JoinResolvesHostVisibility ==
    [][\A c, d \in Conns :
          /\ (/\ pc[c] = "join_public" /\ pc'[c] = "join_notify"
              /\ IsHostOf(d, loc[c].rx[1].ch) /\ m[d] # <<>>) =>
                 \A p \in DOMAIN public_matches \ DOMAIN public_matches' :
                     public_matches[p].match_id = m[d][1].match_id
          /\ (/\ pc[c] = "join_wait" /\ pc'[c] = "select"
              /\ IsHostOf(d, loc[c].rx[1].ch) /\ m[d] # <<>>) =>
                 /\ m'[c][1].visibility = m[d][1].visibility
                 /\ sent'[c][1].body[1].visibility = m[d][1].visibility
                 /\ \E i \in 1..Len(history') :
                        /\ history'[i].match_id = m[d][1].match_id
                        /\ history'[i].visibility = m[d][1].visibility]_vars

====
